---- MODULE Spec2Model ----
(***************************************************************************)
(* Model of the gst translation front-end: the command runner              *)
(* (gst_gui/utils/cli_runner.py, class CLIRunner) driven by one worker     *)
(* thread, the control thread that sets the cancellation event, and the    *)
(* child process the worker spawns.                                        *)
(*                                                                         *)
(* Spec follows a batch (run_translation_batch).  Further specifications   *)
(* follow single calls over wider inputs: SrtSpec add_translator_info      *)
(* statement by statement, CleanSpec _clean_filename_from_language_codes,  *)
(* BuildSpec _build_gst_command, ExecSpec and StripSpec the run of one     *)
(* pair's child with the lines it prints (_run_single_translation and      *)
(* _execute_command), ExecFairSpec the same run with a worker that keeps   *)
(* being scheduled.  TmdbSpec follows the metadata lookups of the main     *)
(* window (gst_gui/gui/main_window.py, gst_gui/utils/tmdb_helper.py).      *)
(*                                                                         *)
(* Strings are sequences of one-character strings, so that path, suffix    *)
(* and regular-expression operations are computed and not assumed.         *)
(***************************************************************************)
EXTENDS Integers, Sequences, FiniteSets, TLC

(***************************************************************************)
(* Bounds of the model.                                                    *)
(***************************************************************************)
MaxPairs == 2

MaxLines == 1

(***************************************************************************)
(* Python values.                                                          *)
(***************************************************************************)
\* Python's None, as a value that is no string of characters.
PyNone == <<"<None>">>

\* bool(x) of a value that is None or a str.
Truthy(x) == x # PyNone /\ x # <<>>

\* The sentinel "No match" put in the tree by _process_single_file.
NoMatch == <<"N","o"," ","m","a","t","c","h">>

\* The sentinel "None" put in the tree by _process_folder.
NoneStr == <<"N","o","n","e">>

UpperLetters ==
  <<"A","B","C","D","E","F","G","H","I","J","K","L","M",
    "N","O","P","Q","R","S","T","U","V","W","X","Y","Z">>

LowerLetters ==
  <<"a","b","c","d","e","f","g","h","i","j","k","l","m",
    "n","o","p","q","r","s","t","u","v","w","x","y","z">>

\* str.lower() of one character (the case folding re.IGNORECASE applies).
LowerC(c) ==
  IF \E k \in 1..26 : UpperLetters[k] = c
  THEN LowerLetters[CHOOSE k \in 1..26 : UpperLetters[k] = c]
  ELSE c

\* s.endswith(suffix)
EndsWith(s, suffix) ==
  /\ Len(suffix) <= Len(s)
  /\ SubSeq(s, Len(s) - Len(suffix) + 1, Len(s)) = suffix

\* s.endswith(("No match", "None"))
EndsWithSentinel(s) == EndsWith(s, NoMatch) \/ EndsWith(s, NoneStr)

\* needle in s (substring test)
Contains(s, needle) ==
  \E p \in 1..(Len(s) - Len(needle) + 1) :
     SubSeq(s, p, p + Len(needle) - 1) = needle

\* s.strip(chars)
RECURSIVE LStrip(_, _)
LStrip(s, chars) ==
  IF s # <<>> /\ Head(s) \in chars THEN LStrip(Tail(s), chars) ELSE s

RECURSIVE RStrip(_, _)
RStrip(s, chars) ==
  IF s # <<>> /\ s[Len(s)] \in chars
  THEN RStrip(SubSeq(s, 1, Len(s) - 1), chars)
  ELSE s

Strip(s, chars) == RStrip(LStrip(s, chars), chars)

\* The characters str.strip() removes, of those the model's strings use.
Whitespace == {" "}

(***************************************************************************)
(* pathlib.Path, on relative and absolute POSIX-style paths without        *)
(* trailing or doubled slashes.                                            *)
(***************************************************************************)
\* Index of the last occurrence of c in s, 0 when there is none (rfind + 1).
LastIndexOf(s, c) ==
  IF \E k \in 1..Len(s) : s[k] = c
  THEN CHOOSE k \in 1..Len(s) :
         s[k] = c /\ \A j \in (k + 1)..Len(s) : s[j] # c
  ELSE 0

\* Path(p).name
PathName(p) == SubSeq(p, LastIndexOf(p, "/") + 1, Len(p))

\* Path(p).stem : the name without its last suffix; a leading or a trailing
\* dot starts no suffix.
PathStem(p) ==
  LET name == PathName(p)
      k == LastIndexOf(name, ".")
  IN IF 1 < k /\ k < Len(name) THEN SubSeq(name, 1, k - 1) ELSE name

\* str(Path(p).parent)
PathParent(p) ==
  LET k == LastIndexOf(p, "/")
  IN IF k = 0 THEN <<".">>
     ELSE IF k = 1 THEN <<"/">>
     ELSE SubSeq(p, 1, k - 1)

\* str(Path(parent) / filename)
PathJoin(parent, filename) ==
  IF parent = <<".">> THEN filename
  ELSE IF parent = <<"/">> THEN parent \o filename
  ELSE parent \o <<"/">> \o filename

(***************************************************************************)
(* _clean_filename_from_language_codes                                     *)
(***************************************************************************)
\* The language_codes set literal, in the order of the source text.
LanguageCodeList ==
  <<
    <<"e","n">>, <<"e","n","g">>, <<"e","n","g","l","i","s","h">>,
    <<"i","t">>, <<"i","t","a">>, <<"i","t","a","l","i","a","n">>,
    <<"i","t","a","l","i","a","n","o">>, <<"p","l">>, <<"p","o","l">>,
    <<"p","o","l","i","s","h">>, <<"p","o","l","s","k","i">>, <<"e","s">>,
    <<"e","s","p">>, <<"s","p","a","n","i","s","h">>,
    <<"e","s","p","a","n","o","l">>, <<"f","r">>, <<"f","r","a">>,
    <<"f","r","e","n","c","h">>, <<"f","r","a","n","c","a","i","s">>,
    <<"d","e">>, <<"g","e","r">>, <<"g","e","r","m","a","n">>,
    <<"d","e","u","t","s","c","h">>, <<"p","t">>, <<"p","o","r">>,
    <<"p","o","r","t","u","g","u","e","s","e">>,
    <<"p","o","r","t","u","g","u","e","s">>, <<"r","u">>, <<"r","u","s">>,
    <<"r","u","s","s","i","a","n">>, <<"j","a">>, <<"j","p","n">>,
    <<"j","a","p","a","n","e","s","e">>, <<"k","o">>, <<"k","o","r">>,
    <<"k","o","r","e","a","n">>, <<"z","h">>, <<"c","h","i">>,
    <<"c","h","i","n","e","s","e">>, <<"a","r">>, <<"a","r","a">>,
    <<"a","r","a","b","i","c">>, <<"h","i">>, <<"h","i","n">>,
    <<"h","i","n","d","i">>, <<"n","l">>, <<"d","u","t">>,
    <<"d","u","t","c","h">>, <<"s","v">>, <<"s","w","e">>,
    <<"s","w","e","d","i","s","h">>, <<"n","o">>, <<"n","o","r">>,
    <<"n","o","r","w","e","g","i","a","n">>, <<"d","a">>, <<"d","a","n">>,
    <<"d","a","n","i","s","h">>, <<"f","i">>, <<"f","i","n">>,
    <<"f","i","n","n","i","s","h">>, <<"t","r">>, <<"t","u","r">>,
    <<"t","u","r","k","i","s","h">>, <<"h","e">>, <<"h","e","b">>,
    <<"h","e","b","r","e","w">>, <<"e","l">>, <<"g","r","e">>,
    <<"g","r","e","e","k">>, <<"c","s">>, <<"c","z","e">>,
    <<"c","z","e","c","h">>, <<"h","u">>, <<"h","u","n">>,
    <<"h","u","n","g","a","r","i","a","n">>, <<"r","o">>, <<"r","u","m">>,
    <<"r","o","m","a","n","i","a","n">>, <<"b","g">>, <<"b","u","l">>,
    <<"b","u","l","g","a","r","i","a","n">>, <<"h","r">>, <<"c","r","o">>,
    <<"c","r","o","a","t","i","a","n">>, <<"s","k">>, <<"s","l","o">>,
    <<"s","l","o","v","a","k">>, <<"s","l">>, <<"s","l","v">>,
    <<"s","l","o","v","e","n","i","a","n">>, <<"e","t">>, <<"e","s","t">>,
    <<"e","s","t","o","n","i","a","n">>, <<"l","v">>, <<"l","a","t">>,
    <<"l","a","t","v","i","a","n">>, <<"l","t">>, <<"l","i","t">>,
    <<"l","i","t","h","u","a","n","i","a","n">>
  >>

\* re.escape(lang_code) matched at position p of s under re.IGNORECASE.
CodeAt(s, p, code) ==
  /\ p + Len(code) - 1 <= Len(s)
  /\ \A k \in 1..Len(code) : LowerC(s[p + k - 1]) = code[k]

\* Length of the match of pattern number `pat` for `code` that starts at
\* position p of s, 0 when it does not match there.
\*   1:  \.code(?=\.|$)       2:  [\-_]code(?=[\-_\.]|$)     3:  ^code[\-_\.]
MatchLen(pat, s, p, code) ==
  LET after == p + Len(code) + 1
  IN CASE pat = 1 ->
            IF /\ s[p] = "."
               /\ CodeAt(s, p + 1, code)
               /\ (after > Len(s) \/ s[after] = ".")
            THEN Len(code) + 1 ELSE 0
       [] pat = 2 ->
            IF /\ s[p] \in {"-", "_"}
               /\ CodeAt(s, p + 1, code)
               /\ (after > Len(s) \/ s[after] \in {"-", "_", "."})
            THEN Len(code) + 1 ELSE 0
       [] OTHER ->
            IF /\ p = 1
               /\ CodeAt(s, 1, code)
               /\ Len(code) + 1 <= Len(s)
               /\ s[Len(code) + 1] \in {"-", "_", "."}
            THEN Len(code) + 1 ELSE 0

\* re.sub(pattern, '', s): the leftmost non-overlapping matches, found on
\* s itself from position p on, are deleted.
RECURSIVE ReSubFrom(_, _, _, _)
ReSubFrom(pat, s, p, code) ==
  IF p > Len(s) THEN <<>>
  ELSE LET m == MatchLen(pat, s, p, code)
       IN IF m > 0 THEN ReSubFrom(pat, s, p + m, code)
          ELSE <<s[p]>> \o ReSubFrom(pat, s, p + 1, code)

\* The three substitutions of one lang_code, in the order of `patterns`.
RemoveCode(s, code) ==
  ReSubFrom(3, ReSubFrom(2, ReSubFrom(1, s, 1, code), 1, code), 1, code)

\* The loop over language_codes, taken in the order `order`: the codes
\* order[lo], ..., order[hi] are removed one after the other.
RECURSIVE RemoveCodes(_, _, _, _)
RemoveCodes(s, order, lo, hi) ==
  IF lo > hi THEN s
  ELSE IF lo = hi THEN RemoveCode(s, order[lo])
  ELSE LET mid == (lo + hi) \div 2
           half == RemoveCodes(s, order, lo, mid)
       IN IF half = s THEN RemoveCodes(s, order, mid + 1, hi)
          ELSE RemoveCodes(half, order, mid + 1, hi)

\* re.sub(c+, c, s): every run of the character c becomes one c.
RECURSIVE CollapseRuns(_, _)
CollapseRuns(s, c) ==
  IF Len(s) < 2 THEN s
  ELSE IF s[1] = c /\ s[2] = c THEN CollapseRuns(Tail(s), c)
  ELSE <<s[1]>> \o CollapseRuns(Tail(s), c)

\* Variant of CleanFilenameFromLanguageCodes that returns the empty result
\* instead of falling back to the stem.
CleanFilenameFromLanguageCodes_NoFallback(filename_stem, order) ==
  Strip(CollapseRuns(CollapseRuns(CollapseRuns(
          RemoveCodes(filename_stem, order, 1, Len(order)), "."), "-"), "_"),
        {".", "-", "_", " "})

CleanFilenameFromLanguageCodes(filename_stem, order) ==
  LET removed == RemoveCodes(filename_stem, order, 1, Len(order))
      result == Strip(CollapseRuns(CollapseRuns(CollapseRuns(removed, "."),
                                                "-"), "_"),
                      {".", "-", "_", " "})
  IN IF result # <<>> THEN result ELSE filename_stem

(***************************************************************************)
(* Command Builder                                                         *)
(***************************************************************************)
\* The fixed formatting rules text of translation_prompt, kept as one token.
TranslationPrompt == <<"<translation_prompt>">>

\* _find_gst_command: `which gst`, then `where gst`, then the local files.
FindGstCommand(whichFound, whereFound, localFound) ==
  IF whichFound THEN <<"g","s","t">>
  ELSE IF whereFound THEN <<"g","s","t">>
  ELSE IF localFound THEN <<"/","c","w","d","/","g","s","t">>
  ELSE PyNone

\* "TV series" if is_tv_series else "movie"
ContentType(config) ==
  IF config.is_tv_series THEN <<"T","V"," ","s","e","r","i","e","s">> ELSE <<"m","o","v","i","e">>

\* Variant of DescriptionArgs whose title-only sentence always says movie.
DescriptionArgs_TitleOnlyIsMovie(config) ==
  LET overview == Strip(config.overview, Whitespace)
      movie_title == Strip(config.movie_title, Whitespace)
  IN IF overview # <<>> /\ movie_title # <<>>
     THEN << <<"-","-","d","e","s","c","r","i","p","t","i","o","n">>,
             TranslationPrompt \o <<" ","I","t"," ","i","s"," ","a"," ">> \o ContentType(config)
               \o <<" ","c","a","l","l","e","d"," ">> \o movie_title \o <<"."," ","D","e","s","c","r","i","p","t","i","o","n",":"," ">>
               \o overview >>
     ELSE IF overview # <<>>
     THEN << <<"-","-","d","e","s","c","r","i","p","t","i","o","n">>, overview >>
     ELSE IF movie_title # <<>>
     THEN << <<"-","-","d","e","s","c","r","i","p","t","i","o","n">>,
             <<"I","t"," ","i","s"," ","a"," ","m","o","v","i","e"," ","c","a","l","l","e","d"," ">> \o movie_title \o <<".">> >>
     ELSE <<>>

\* The --description arguments of _build_gst_command.
DescriptionArgs(config) ==
  LET overview == Strip(config.overview, Whitespace)
      movie_title == Strip(config.movie_title, Whitespace)
  IN IF overview # <<>> /\ movie_title # <<>>
     THEN << <<"-","-","d","e","s","c","r","i","p","t","i","o","n">>,
             TranslationPrompt \o <<" ","I","t"," ","i","s"," ","a"," ">> \o ContentType(config)
               \o <<" ","c","a","l","l","e","d"," ">> \o movie_title \o <<"."," ","D","e","s","c","r","i","p","t","i","o","n",":"," ">>
               \o overview >>
     ELSE IF overview # <<>>
     THEN << <<"-","-","d","e","s","c","r","i","p","t","i","o","n">>, overview >>
     ELSE IF movie_title # <<>>
     THEN << <<"-","-","d","e","s","c","r","i","p","t","i","o","n">>,
             <<"I","t"," ","i","s"," ","a"," ">> \o ContentType(config) \o <<" ","c","a","l","l","e","d"," ">>
               \o movie_title \o <<".">> >>
     ELSE <<>>

\* Variant of BatchSizeArgs that looks for "2." instead of "2.0".
BatchSizeArgs_AnyTwoPoint(model) ==
  IF Contains(model, <<"2",".">>)
  THEN << <<"-","-","b","a","t","c","h","-","s","i","z","e">>, <<"1","0","0">> >>
  ELSE <<>>

\* Lines 348-349: the batch size of the Gemini 2.0 models.
BatchSizeArgs(model) ==
  IF Contains(model, <<"2",".","0">>)
  THEN << <<"-","-","b","a","t","c","h","-","s","i","z","e">>, <<"1","0","0">> >>
  ELSE <<>>

\* The -v / --extract-audio arguments of _build_gst_command.
VideoArgs(video_file, config) ==
  IF Truthy(video_file) /\ ~EndsWithSentinel(PathName(video_file))
  THEN IF config.extract_audio
       THEN << <<"-","v">>, video_file, <<"-","-","e","x","t","r","a","c","t","-","a","u","d","i","o">> >>
       ELSE << <<"-","v">>, video_file >>
  ELSE <<>>

\* The subtitle passes both tests of _build_gst_command: it is truthy and
\* its name does not end with a sentinel.
SubtitleKept(subtitle_file) ==
  Truthy(subtitle_file) /\ ~EndsWithSentinel(PathName(subtitle_file))

\* The path the output name is derived from: the subtitle when it was kept,
\* else the video (which may be None).
OutputSource(subtitle_file, video_file) ==
  IF SubtitleKept(subtitle_file) THEN subtitle_file ELSE video_file

\* subtitle_path.parent / f"{cleaned_stem}.{language_code}.srt"
OutputPathOf(path, language_code, order) ==
  PathJoin(PathParent(path),
           CleanFilenameFromLanguageCodes(PathStem(path), order)
             \o <<".">> \o language_code \o <<".","s","r","t">>)

\* _build_gst_command: the argument vector, or the TypeError Path(None)
\* raises when the output name has to come from a video that is None.
BuildGstCommand(gst_cmd, subtitle_file, video_file, config, order) ==
  LET source == OutputSource(subtitle_file, video_file)
      inputArgs == IF SubtitleKept(subtitle_file)
                   THEN << <<"-","i">>, subtitle_file >>
                   ELSE <<>>
      gemini_api_key == Strip(config.gemini_api_key, Whitespace)
  IN IF source = PyNone
     THEN [raised |-> TRUE, cmd |-> <<>>]
     ELSE [raised |-> FALSE,
           cmd |-> << gst_cmd, <<"t","r","a","n","s","l","a","t","e">> >>
                   \o inputArgs
                   \o << <<"-","o">>,
                         OutputPathOf(source, config.language_code, order) >>
                   \o << <<"-","l">>, config.language >>
                   \o (IF gemini_api_key # <<>>
                       THEN << <<"-","k">>, gemini_api_key >> ELSE <<>>)
                   \o << <<"-","-","m","o","d","e","l">>, config.model >>
                   \o BatchSizeArgs(config.model)
                   \o DescriptionArgs(config)
                   \o VideoArgs(video_file, config)]

\* _get_output_file_path
GetOutputFilePath(subtitle_file, config, order) ==
  OutputPathOf(subtitle_file, config.language_code, order)

\* The path _run_single_translation hands to add_translator_info.
PostProcessingPath(subtitle_file, video_file, config, order) ==
  IF Truthy(subtitle_file)
  THEN GetOutputFilePath(subtitle_file, config, order)
  ELSE GetOutputFilePath(video_file, config, order)

\* The argument that follows the first occurrence of flag in cmd, or PyNone.
ArgOf(cmd, flag) ==
  IF \E k \in 1..(Len(cmd) - 1) : cmd[k] = flag
  THEN cmd[(CHOOSE k \in 1..(Len(cmd) - 1) :
              cmd[k] = flag /\ \A j \in 1..(k - 1) : cmd[j] # flag) + 1]
  ELSE PyNone

HasFlag(cmd, flag) == \E k \in 1..Len(cmd) : cmd[k] = flag

(***************************************************************************)
(* Inputs                                                                  *)
(***************************************************************************)
SubtitleReal == <<"d","/","m",".","e","n",".","s","r","t">>

VideoReal == <<"v","/","m",".","m","k","v">>

\* pair.get('subtitle')
SubtitleValues == {PyNone, <<>>, NoMatch, SubtitleReal}

\* pair.get('video')
VideoValues == {PyNone, <<>>, NoneStr, VideoReal}

FilePairs == [subtitle : SubtitleValues, video : VideoValues]

\* The dictionary of _get_current_config, without cancel_event.
Configs ==
  [language : {<<"P","o","l","i","s","h">>},
   language_code : {<<"p","l">>},
   gemini_api_key : {<<"k">>},
   model : {<<"g","e","m","i","n","i","-","2",".","0","-","f","l","a","s","h">>},
   overview : {<<>>},
   movie_title : {<<"M">>},
   is_tv_series : {FALSE},
   extract_audio : {FALSE},
   add_translator_info : BOOLEAN]

\* Iteration orders of the language_codes set taken by the batch model:
\* the order is fixed within one process, and the batch does not depend on
\* which one it is.
CodeOrders == {LanguageCodeList}

\* Exit codes a child chooses by itself.
ExitCodes == {0, 1}

\* Exit code of a child ended by SIGTERM (terminate) and by SIGKILL (kill).
SigTerm == 0 - 15

SigKill == 0 - 9

(***************************************************************************)
(* The output of the child: ansi_escape (line 23) and the text logged      *)
(* for a line (lines 443-446)                                              *)
(***************************************************************************)
\* The character ESC (0x1B), as one character of a string.
Esc == "ESC"

\* ord(c), for the characters the lines of the model are made of.
Ord(c) ==
  CASE c = Esc -> 27
    [] c = " " -> 32
    [] c = "0" -> 48
    [] c = "1" -> 49
    [] c = "3" -> 51
    [] c = "H" -> 72
    [] c = "M" -> 77
    [] c = "[" -> 91
    [] c = "c" -> 99
    [] c = "e" -> 101
    [] c = "l" -> 108
    [] c = "m" -> 109
    [] c = "o" -> 111

\* c is in the range lo-hi of a character class.
InClass(c, lo, hi) == Ord(c) >= lo /\ Ord(c) <= hi

\* [@-Z\\-_]
IsFe(c) == InClass(c, 64, 90) \/ InClass(c, 92, 95)

\* [0-?]
IsParameter(c) == InClass(c, 48, 63)

\* [ -/]
IsIntermediate(c) == InClass(c, 32, 47)

\* Variant of IsFinal that takes letters only.
IsFinal_LettersOnly(c) == InClass(c, 65, 90) \/ InClass(c, 97, 122)

\* [@-~]
IsFinal(c) == InClass(c, 64, 126)

\* [0-?]* from index k: the index after the run.
ParametersEnd(s, k) ==
  CHOOSE j \in k..(Len(s) + 1) :
    /\ j = Len(s) + 1 \/ ~IsParameter(s[j])
    /\ \A m \in k..(j - 1) : IsParameter(s[m])

\* [ -/]* from index k: the index after the run.
IntermediatesEnd(s, k) ==
  CHOOSE j \in k..(Len(s) + 1) :
    /\ j = Len(s) + 1 \/ ~IsIntermediate(s[j])
    /\ \A m \in k..(j - 1) : IsIntermediate(s[m])

\* ansi_escape matched at index k of s: the length of the match, 0 when
\* there is none. The classes are disjoint, so the greedy runs decide.
AnsiMatchLen(s, k) ==
  IF s[k] # Esc \/ k = Len(s) THEN 0
  ELSE IF IsFe(s[k + 1]) THEN 2
  ELSE IF s[k + 1] # "[" THEN 0
  ELSE LET final == IntermediatesEnd(s, ParametersEnd(s, k + 2))
       IN  IF final <= Len(s) /\ IsFinal(s[final])
           THEN final - k + 1
           ELSE 0

\* ansi_escape.sub('', s), scanning from index k.
RECURSIVE AnsiSubFrom(_, _)
AnsiSubFrom(s, k) ==
  IF k > Len(s) THEN <<>>
  ELSE LET n == AnsiMatchLen(s, k)
       IN  IF n > 0
           THEN AnsiSubFrom(s, k + n)
           ELSE <<s[k]>> \o AnsiSubFrom(s, k + 1)

AnsiSub(s) == AnsiSubFrom(s, 1)

\* Lines 443-444: line.rstrip(), then the substitution. A line is what
\* readline() returns without its newline.
OutputLine(line) == AnsiSub(RStrip(line, Whitespace))

\* Line 446: the message handed to the logger.
LogLine(output_line) == <<" "," "," ">> \o output_line

\* The line of the example, ESC[31mHelloESC[0m, and a line of spaces.
ColouredLine == <<Esc>> \o <<"[","3","1","m","H","e","l","l","o">> \o <<Esc>> \o <<"[","0","m">>

BlankLine == <<" "," ">>

\* A short line with a colour in it.
ShortLine == <<Esc>> \o <<"[","0","m","H">>

\* The lines the child of a batch is made of.
OutputLines == {BlankLine, ColouredLine}

(***************************************************************************)
(* State                                                                   *)
(***************************************************************************)
VARIABLES
  gst_cmd,        \* self.gst_cmd
  total_count,    \* len(file_pairs)
  config,         \* the configuration dictionary
  codeOrder,      \* iteration order of language_codes in this process
  hasEvent,       \* config.get('cancel_event') is not None
  child_output,   \* the lines the executable prints, unless it ends before
  cancel_set,     \* cancel_event.is_set()
  pc,             \* position of the worker thread
  i,              \* loop variable of run_translation_batch, 0 = unbound
  pair,           \* file_pairs[i - 1]
  success_count,
  cmd,            \* command built for the current pair
  output_file,    \* path handed to add_translator_info
  success,        \* result of the current pair
  result,         \* value returned by run_translation_batch
  exc,            \* exception that left run_translation_batch
  proc,           \* child process: "none", "running", "exited"
  stdout,         \* child's output pipe: "open", "eof"
  pending,        \* lines written by the child and not yet read
  written,        \* lines written by the child
  returncode,
  termAt,         \* where terminate() was called: "none", "read", "wait"
  killed,         \* kill() was called
  attempted,      \* pairs _build_gst_command was called for
  spawned,        \* pairs Popen was called for
  results,        \* results of _run_single_translation, in order
  postCalls,      \* paths add_translator_info was called with for pair i
  attribOutcome,  \* how add_translator_info ended for pair i
  cancelAt,       \* pair in progress when the event was set, 0 = none
  cancelWhen,     \* where the worker and the child were at that moment
  forwarded,      \* lines of the current child handed to the logger
  log,            \* kinds of the messages logged since pair i started
                  \* (since the batch started, before the first pair)
  filename_stem,  \* argument of _clean_filename_from_language_codes
  cleaned_stem,   \* its return value, PyNone before the call
  disk,           \* what dest_srt_file holds on disk
  srt_original,   \* what it held when add_translator_info was called
  subtitles,      \* the list of captions inside add_translator_info
  new_sub,        \* the caption add_translator_info constructs
  settings,       \* tmdb_api_key, auto_fetch_tmdb and is_tv_series
  tmdb_id,        \* the TMDB ID field
  overview_text,  \* the overview text box
  dropped,        \* titles of the files dropped, in order
  timers,         \* root.after(100, ...) calls not yet run, in order
  lookups,        \* the lookup threads started, in order
  callbacks,      \* root.after(0, ...) calls of the threads not yet run
  sent            \* HTTP requests made

\* The variables of the two function-level specifications below.
cleanVars == <<filename_stem, cleaned_stem>>

srtVars == <<disk, srt_original, subtitles, new_sub>>

\* The variables of the metadata lookups.
tmdbVars ==
  <<settings, tmdb_id, overview_text, dropped, timers, lookups, callbacks,
    sent>>

\* No window is followed.
TmdbIdle ==
  /\ settings = [tmdb_api_key |-> <<>>, auto_fetch_tmdb |-> FALSE,
                 is_tv_series |-> FALSE]
  /\ tmdb_id = <<>>
  /\ overview_text = <<>>
  /\ dropped = <<>>
  /\ timers = <<>>
  /\ lookups = <<>>
  /\ callbacks = <<>>
  /\ sent = {}

fnVars == <<cleanVars, srtVars, tmdbVars>>

vars ==
  <<gst_cmd, total_count, config, codeOrder, hasEvent, cancel_set, pc, i,
    pair, success_count, cmd, output_file, success, result, exc, proc,
    stdout, pending, written, returncode, termAt, killed, attempted,
    spawned, results, postCalls, attribOutcome, cancelAt, cancelWhen,
    forwarded, log, child_output, fnVars>>

inputVars ==
  <<gst_cmd, total_count, config, codeOrder, hasEvent, child_output>>

childVars == <<proc, stdout, pending, written, returncode, termAt, killed>>

NoPair == [subtitle |-> PyNone, video |-> PyNone]

\* Positions inside _run_single_translation.
PairPcs ==
  {"single", "build", "popen", "read_check", "readline", "term_wait",
   "wait", "wait_timeout", "wait_exit", "post", "attrib"}

\* The event has not been set.
NotCancelled == "none"

\* The file that does not exist.
MissingFile == [exists |-> FALSE, parseable |-> FALSE, blocks |-> <<>>]

\* No caption has been constructed.
NoSub == [index |-> 0, start |-> 0, end |-> 0, content |-> <<>>]

\* No call of _clean_filename_from_language_codes is being followed.
CleanIdle ==
  /\ filename_stem = PyNone
  /\ cleaned_stem = PyNone

\* No call of add_translator_info is being followed.
SrtIdle ==
  /\ disk = MissingFile
  /\ srt_original = MissingFile
  /\ subtitles = <<>>
  /\ new_sub = NoSub

\* Everything but the loop variable and the pair it binds, as it is before
\* the first pair is processed.
LoopIdle ==
  /\ cancel_set = FALSE
  /\ success_count = 0
  /\ cmd = <<>>
  /\ output_file = PyNone
  /\ success = FALSE
  /\ result = "none"
  /\ exc = "none"
  /\ proc = "none"
  /\ stdout = "open"
  /\ pending = 0
  /\ written = 0
  /\ returncode = 0
  /\ termAt = "none"
  /\ killed = FALSE
  /\ attempted = {}
  /\ spawned = {}
  /\ results = <<>>
  /\ postCalls = <<>>
  /\ attribOutcome = "none"
  /\ cancelAt = 0
  /\ cancelWhen = NotCancelled
  /\ forwarded = <<>>
  /\ log = {}

\* The state run_translation_batch starts in: no pair is bound.
BatchIdle ==
  /\ i = 0
  /\ pair = NoPair
  /\ LoopIdle

Init ==
  /\ \E whichFound \in BOOLEAN :
       gst_cmd = FindGstCommand(whichFound, FALSE, FALSE)
  /\ total_count \in 0..MaxPairs
  /\ config \in Configs
  /\ codeOrder \in CodeOrders
  /\ hasEvent \in BOOLEAN
  /\ child_output = [n \in 1..MaxLines |-> ShortLine]
  /\ pc = "start"
  /\ BatchIdle
  /\ CleanIdle
  /\ SrtIdle
  /\ TmdbIdle

\* cancel_event and cancel_event.is_set()
IsCancelled == hasEvent /\ cancel_set

Logged(kinds) == log' = log \cup kinds

\* _run_single_translation returns ok to run_translation_batch.
ReturnSingle(ok) ==
  /\ success' = ok
  /\ results' = Append(results, ok)
  /\ pc' = "after_single"

(***************************************************************************)
(* Control thread                                                          *)
(***************************************************************************)
\* Where the batch is when the event is set: the child of the current pair
\* is running, or the pair has passed the check of line 124 and its child
\* is not spawned yet, or elsewhere.
CancelMoment ==
  IF proc = "running" THEN "running"
  ELSE IF pc \in {"build", "popen"} THEN "checked"
  ELSE "elsewhere"

\* cancel_event.set(), at any moment of a batch.
Cancel ==
  /\ hasEvent
  /\ ~cancel_set
  /\ pc \notin {"returned", "raised"}
  /\ cancel_set' = TRUE
  /\ cancelAt' = IF pc \in PairPcs THEN i ELSE 0
  /\ cancelWhen' = CancelMoment
  /\ UNCHANGED <<inputVars, pc, i, pair, success_count, cmd, output_file,
                 success, result, exc, childVars, attempted, spawned,
                 results, postCalls, attribOutcome, log>>
  /\ UNCHANGED <<forwarded, fnVars>>

(***************************************************************************)
(* Child process                                                           *)
(***************************************************************************)
\* The child writes one line to its output pipe.
ChildWrite ==
  /\ proc = "running"
  /\ stdout = "open"
  /\ written < Len(child_output)
  /\ pending' = pending + 1
  /\ written' = written + 1
  /\ UNCHANGED <<inputVars, cancel_set, pc, i, pair, success_count, cmd,
                 output_file, success, result, exc, proc, stdout,
                 returncode, termAt, killed, attempted, spawned, results,
                 postCalls, attribOutcome, cancelAt, log>>
  /\ UNCHANGED <<cancelWhen, forwarded, fnVars>>

\* The child closes its output pipe and keeps running.
ChildClose ==
  /\ proc = "running"
  /\ stdout = "open"
  /\ stdout' = "eof"
  /\ UNCHANGED <<inputVars, cancel_set, pc, i, pair, success_count, cmd,
                 output_file, success, result, exc, proc, pending, written,
                 returncode, termAt, killed, attempted, spawned, results,
                 postCalls, attribOutcome, cancelAt, log>>
  /\ UNCHANGED <<cancelWhen, forwarded, fnVars>>

\* The child exits: by itself with a code of its choice (a handler of
\* SIGTERM included), or ended by SIGTERM once terminate() was called.
ChildExit ==
  /\ proc = "running"
  /\ \E code \in ExitCodes \cup (IF termAt # "none" THEN {SigTerm} ELSE {}) :
       returncode' = code
  /\ proc' = "exited"
  /\ stdout' = "eof"
  /\ UNCHANGED <<inputVars, cancel_set, pc, i, pair, success_count, cmd,
                 output_file, success, result, exc, pending, written,
                 termAt, killed, attempted, spawned, results, postCalls,
                 attribOutcome, cancelAt, log>>
  /\ UNCHANGED <<cancelWhen, forwarded, fnVars>>

(***************************************************************************)
(* Worker thread: run_translation_batch                                    *)
(***************************************************************************)
\* Variant of RunTranslationBatch that goes on without an executable.
RunTranslationBatch_NoDiscoveryCheck ==
  /\ pc = "start"
  /\ Logged({"found_gst"})
  /\ result' = result
  /\ pc' = "loop"
  /\ success_count' = 0
  /\ UNCHANGED <<inputVars, cancel_set, i, pair, cmd, output_file, success,
                 exc, childVars, attempted, spawned, results, postCalls,
                 attribOutcome, cancelAt>>
  /\ UNCHANGED <<cancelWhen, forwarded, fnVars>>

\* Lines 73-83: the discovery check and the loop set-up.
RunTranslationBatch ==
  /\ pc = "start"
  /\ IF gst_cmd = PyNone
     THEN /\ Logged({"gst_not_found"})
          /\ result' = "False"
          /\ pc' = "returned"
     ELSE /\ Logged({"found_gst"})
          /\ result' = result
          /\ pc' = "loop"
  /\ success_count' = 0
  /\ UNCHANGED <<inputVars, cancel_set, i, pair, cmd, output_file, success,
                 exc, childVars, attempted, spawned, results, postCalls,
                 attribOutcome, cancelAt>>
  /\ UNCHANGED <<cancelWhen, forwarded, fnVars>>

\* Lines 85-90: the next pair is bound to i and pair, then the event is
\* checked. The locals of the call for the previous pair, and the child it
\* ran, are gone.
ForLoopNext ==
  /\ pc = "loop"
  /\ IF i < total_count
     THEN /\ i' = i + 1
          /\ \E p \in FilePairs : pair' = p
          /\ IF IsCancelled
             THEN /\ log' = {"cancel_at_pair"}
                  /\ pc' = "summary"
             ELSE /\ log' = {"processing_pair"}
                  /\ pc' = "single"
          /\ postCalls' = <<>>
          /\ attribOutcome' = "none"
          /\ forwarded' = <<>>
          /\ proc' = "none"
          /\ stdout' = "open"
          /\ pending' = 0
          /\ written' = 0
          /\ returncode' = 0
          /\ termAt' = "none"
          /\ killed' = FALSE
          /\ cmd' = <<>>
          /\ output_file' = PyNone
          /\ success' = FALSE
     ELSE /\ pc' = "summary"
          /\ UNCHANGED <<i, pair, postCalls, attribOutcome, log, childVars,
                         cmd, output_file, success, forwarded>>
  /\ UNCHANGED <<inputVars, cancel_set, success_count, result, exc,
                 attempted, spawned, results, cancelAt>>
  /\ UNCHANGED <<cancelWhen, fnVars>>

\* Lines 93-98: the bookkeeping after _run_single_translation.
AfterSingle ==
  /\ pc = "after_single"
  /\ IF success
     THEN /\ success_count' = success_count + 1
          /\ pc' = "loop"
     ELSE /\ success_count' = success_count
          /\ pc' = IF IsCancelled THEN "summary" ELSE "loop"
  /\ UNCHANGED <<inputVars, cancel_set, i, pair, cmd, output_file, success,
                 result, exc, childVars, attempted, spawned, results,
                 postCalls, attribOutcome, cancelAt, log>>
  /\ UNCHANGED <<cancelWhen, forwarded, fnVars>>

\* Lines 100-107: the summary. Line 102 reads i, which is unbound when the
\* loop body never ran.
Summary ==
  /\ pc = "summary"
  /\ IF IsCancelled
     THEN IF i = 0
          THEN /\ Logged({"cancelled"})
               /\ exc' = "UnboundLocalError"
               /\ result' = result
               /\ pc' = "raised"
          ELSE /\ Logged({"cancelled", "processed_before_cancel"})
               /\ exc' = exc
               /\ result' = "False"
               /\ pc' = "returned"
     ELSE /\ Logged({"completed", "successful"})
          /\ exc' = exc
          /\ result' = IF success_count = total_count
                       THEN "True" ELSE "False"
          /\ pc' = "returned"
  /\ UNCHANGED <<inputVars, cancel_set, i, pair, success_count, cmd,
                 output_file, success, childVars, attempted, spawned,
                 results, postCalls, attribOutcome, cancelAt>>
  /\ UNCHANGED <<cancelWhen, forwarded, fnVars>>

(***************************************************************************)
(* Worker thread: _run_single_translation                                  *)
(***************************************************************************)
\* Variant of RunSingleTranslation without the check of line 124.
RunSingleTranslation_NoCancelCheck ==
  /\ pc = "single"
  /\ Logged(IF Truthy(pair.subtitle) THEN {} ELSE {"no_subtitle"})
  /\ pc' = "build"
  /\ UNCHANGED <<success, results>>
  /\ UNCHANGED <<inputVars, cancel_set, i, pair, success_count, cmd,
                 output_file, result, exc, childVars, attempted, spawned,
                 postCalls, attribOutcome, cancelAt>>
  /\ UNCHANGED <<cancelWhen, forwarded, fnVars>>

\* Lines 121-136: the check before starting.
RunSingleTranslation ==
  /\ pc = "single"
  /\ IF IsCancelled
     THEN /\ Logged({"cancel_before_pair"})
          /\ ReturnSingle(FALSE)
     ELSE /\ Logged(IF Truthy(pair.subtitle) THEN {} ELSE {"no_subtitle"})
          /\ pc' = "build"
          /\ UNCHANGED <<success, results>>
  /\ UNCHANGED <<inputVars, cancel_set, i, pair, success_count, cmd,
                 output_file, result, exc, childVars, attempted, spawned,
                 postCalls, attribOutcome, cancelAt>>
  /\ UNCHANGED <<cancelWhen, forwarded, fnVars>>

\* Lines 139-143: the command is built; an exception of the builder leaves
\* _run_single_translation and run_translation_batch, which catch nothing.
BuildCommand ==
  /\ pc = "build"
  /\ attempted' = attempted \cup {i}
  /\ LET built == BuildGstCommand(gst_cmd, pair.subtitle, pair.video,
                                  config, codeOrder)
     IN IF built.raised
        THEN /\ exc' = "TypeError"
             /\ pc' = "raised"
             /\ UNCHANGED <<cmd, success, results, log>>
        ELSE IF built.cmd = <<>>
        THEN /\ Logged({"build_failed"})
             /\ ReturnSingle(FALSE)
             /\ UNCHANGED <<cmd, exc>>
        ELSE /\ cmd' = built.cmd
             /\ pc' = "popen"
             /\ UNCHANGED <<exc, success, results, log>>
  /\ UNCHANGED <<inputVars, cancel_set, i, pair, success_count,
                 output_file, result, childVars, spawned, postCalls,
                 attribOutcome, cancelAt>>
  /\ UNCHANGED <<cancelWhen, forwarded, fnVars>>

\* Variant of PostProcess that adds the caption whatever the flag is.
PostProcess_IgnoresAttributionFlag ==
  /\ pc = "post"
  /\ IF ~IsCancelled
     THEN LET source == IF Truthy(pair.subtitle)
                        THEN pair.subtitle ELSE pair.video
          IN IF source = PyNone
             THEN /\ Logged({"could_not_add"})
                  /\ ReturnSingle(success)
                  /\ UNCHANGED output_file
             ELSE /\ output_file' =
                       PostProcessingPath(pair.subtitle, pair.video,
                                          config, codeOrder)
                  /\ IF TRUE
                     THEN /\ pc' = "attrib"
                          /\ UNCHANGED <<success, results, log>>
                     ELSE /\ ReturnSingle(success)
                          /\ UNCHANGED log
     ELSE /\ ReturnSingle(success)
          /\ UNCHANGED <<output_file, log>>
  /\ UNCHANGED <<inputVars, cancel_set, i, pair, success_count, cmd, result,
                 exc, childVars, attempted, spawned, postCalls,
                 attribOutcome, cancelAt>>
  /\ UNCHANGED <<cancelWhen, forwarded, fnVars>>

\* Lines 149-171: post-processing after a successful run.
PostProcess ==
  /\ pc = "post"
  /\ IF ~IsCancelled
     THEN LET source == IF Truthy(pair.subtitle)
                        THEN pair.subtitle ELSE pair.video
          IN IF source = PyNone
             THEN /\ Logged({"could_not_add"})
                  /\ ReturnSingle(success)
                  /\ UNCHANGED output_file
             ELSE /\ output_file' =
                       PostProcessingPath(pair.subtitle, pair.video,
                                          config, codeOrder)
                  /\ IF config.add_translator_info
                     THEN /\ pc' = "attrib"
                          /\ UNCHANGED <<success, results, log>>
                     ELSE /\ ReturnSingle(success)
                          /\ UNCHANGED log
     ELSE /\ ReturnSingle(success)
          /\ UNCHANGED <<output_file, log>>
  /\ UNCHANGED <<inputVars, cancel_set, i, pair, success_count, cmd, result,
                 exc, childVars, attempted, spawned, postCalls,
                 attribOutcome, cancelAt>>
  /\ UNCHANGED <<cancelWhen, forwarded, fnVars>>

\* The ways add_translator_info ends: the file does not exist; open/read,
\* srt.parse or open/write/compose raises; or the caption is written.
AttribFailures == {"file_not_found", "read_error", "parse_error",
                   "write_error"}

AttribOutcomes == AttribFailures \cup {"added"}

\* self.logger is set: the runner is built with logger=self.log_to_console.
HasLogger == TRUE

\* Variant of AddTranslatorInfo whose failure fails the pair.
AddTranslatorInfo_FailureFailsPair ==
  /\ pc = "attrib"
  /\ postCalls' = Append(postCalls, output_file)
  /\ \E outcome \in AttribOutcomes :
       /\ attribOutcome' = outcome
       /\ Logged(IF ~HasLogger THEN {}
                 ELSE IF outcome = "file_not_found"
                 THEN {"attrib_file_not_found"}
                 ELSE IF outcome = "added" THEN {"attrib_added"}
                 ELSE {"attrib_error"})
  /\ ReturnSingle(attribOutcome' = "added")
  /\ UNCHANGED <<inputVars, cancel_set, i, pair, success_count, cmd,
                 output_file, result, exc, childVars, attempted, spawned,
                 cancelAt>>
  /\ UNCHANGED <<cancelWhen, forwarded, fnVars>>

\* add_translator_info (lines 545-601): every failure is caught inside,
\* reported through self.logger when there is one, and never raised.
AddTranslatorInfo ==
  /\ pc = "attrib"
  /\ postCalls' = Append(postCalls, output_file)
  /\ \E outcome \in AttribOutcomes :
       /\ attribOutcome' = outcome
       /\ Logged(IF ~HasLogger THEN {}
                 ELSE IF outcome = "file_not_found"
                 THEN {"attrib_file_not_found"}
                 ELSE IF outcome = "added" THEN {"attrib_added"}
                 ELSE {"attrib_error"})
  /\ ReturnSingle(success)
  /\ UNCHANGED <<inputVars, cancel_set, i, pair, success_count, cmd,
                 output_file, result, exc, childVars, attempted, spawned,
                 cancelAt>>
  /\ UNCHANGED <<cancelWhen, forwarded, fnVars>>

(***************************************************************************)
(* Worker thread: _execute_command                                         *)
(***************************************************************************)
\* Lines 401-420: Popen starts the child, or raises and the handler of
\* line 471 reports the failure.
Popen ==
  /\ pc = "popen"
  /\ spawned' = spawned \cup {i}
  /\ \/ /\ proc' = "running"
        /\ pc' = "read_check"
        /\ UNCHANGED <<success, results, log>>
     \/ /\ Logged({"exec_error"})
        /\ ReturnSingle(FALSE)
        /\ UNCHANGED proc
  /\ UNCHANGED <<inputVars, cancel_set, i, pair, success_count, cmd,
                 output_file, result, exc, stdout, pending, written,
                 returncode, termAt, killed, attempted, postCalls,
                 attribOutcome, cancelAt>>
  /\ UNCHANGED <<cancelWhen, forwarded, fnVars>>

\* Variant of ReadLoopCheck that goes on reading whatever the event says.
ReadLoopCheck_NeverCancelled ==
  /\ pc = "read_check"
  /\ pc' = "readline"
  /\ UNCHANGED <<termAt, log>>
  /\ UNCHANGED <<inputVars, cancel_set, i, pair, success_count, cmd,
                 output_file, success, result, exc, proc, stdout, pending,
                 written, returncode, killed, attempted, spawned, results,
                 postCalls, attribOutcome, cancelAt>>
  /\ UNCHANGED <<cancelWhen, forwarded, fnVars>>

\* Lines 425-427: the check at the top of the read loop; terminate() when
\* the event is set.
ReadLoopCheck ==
  /\ pc = "read_check"
  /\ IF IsCancelled
     THEN /\ Logged({"cancel_process"})
          /\ termAt' = "read"
          /\ pc' = "term_wait"
     ELSE /\ pc' = "readline"
          /\ UNCHANGED <<termAt, log>>
  /\ UNCHANGED <<inputVars, cancel_set, i, pair, success_count, cmd,
                 output_file, success, result, exc, proc, stdout, pending,
                 written, returncode, killed, attempted, spawned, results,
                 postCalls, attribOutcome, cancelAt>>
  /\ UNCHANGED <<cancelWhen, forwarded, fnVars>>

\* Lines 428-434: wait(timeout=3) returns when the child has exited;
\* otherwise TimeoutExpired, kill(), wait(). Failure either way.
TerminateWait ==
  /\ pc = "term_wait"
  /\ IF proc = "exited"
     THEN UNCHANGED <<proc, stdout, returncode, killed, log>>
     ELSE /\ Logged({"force_kill"})
          /\ killed' = TRUE
          /\ proc' = "exited"
          /\ stdout' = "eof"
          /\ returncode' = SigKill
  /\ ReturnSingle(FALSE)
  /\ UNCHANGED <<inputVars, cancel_set, i, pair, success_count, cmd,
                 output_file, result, exc, pending, written, termAt,
                 attempted, spawned, postCalls, attribOutcome, cancelAt>>
  /\ UNCHANGED <<cancelWhen, forwarded, fnVars>>

\* Lines 436-452: readline() blocks until a line or the end of the stream.
\* A line is logged unless nothing is left of it; a UnicodeDecodeError
\* continues the loop, any other exception leaves it. The pipe hands the
\* lines over in the order written: the oldest unread one is read.
ReadLine ==
  /\ pc = "readline"
  /\ IF pending > 0
     THEN /\ pending' = pending - 1
          /\ \/ /\ LET n == written - pending + 1
                         line == child_output[n]
                         output_line == OutputLine(line)
                     IN
                     IF Truthy(output_line)
                     THEN /\ Logged({"output_line"})
                          /\ forwarded' =
                               Append(forwarded,
                                      [n |-> n,
                                       line |-> line,
                                       text |-> LogLine(output_line),
                                       signal |-> cancel_set])
                     ELSE UNCHANGED <<log, forwarded>>
                /\ pc' = "read_check"
             \/ /\ Logged({"decode_error"})
                /\ pc' = "read_check"
                /\ UNCHANGED forwarded
             \/ /\ Logged({"read_error"})
                /\ pc' = "wait"
                /\ UNCHANGED forwarded
     ELSE /\ stdout = "eof"
          /\ pc' = "wait"
          /\ UNCHANGED <<pending, log, forwarded>>
  /\ UNCHANGED <<inputVars, cancel_set, i, pair, success_count, cmd,
                 output_file, success, result, exc, proc, stdout, written,
                 returncode, termAt, killed, attempted, spawned, results,
                 postCalls, attribOutcome, cancelAt>>
  /\ UNCHANGED <<cancelWhen, fnVars>>

\* Variant of ReportExit that takes every non-negative code as success.
ReportExit_NonNegativeIsSuccess ==
  IF returncode >= 0
  THEN /\ Logged({"pair_ok"})
       /\ success' = TRUE
       /\ pc' = "post"
       /\ UNCHANGED results
  ELSE /\ Logged({"pair_error"})
       /\ ReturnSingle(FALSE)
  /\ UNCHANGED fnVars

\* Lines 464-469: the exit code decides the result of _execute_command;
\* success goes on to line 149, failure returns through it.
ReportExit ==
  IF returncode = 0
  THEN /\ Logged({"pair_ok"})
       /\ success' = TRUE
       /\ pc' = "post"
       /\ UNCHANGED results
  ELSE /\ Logged({"pair_error"})
       /\ ReturnSingle(FALSE)
  /\ UNCHANGED fnVars

\* Lines 455-457: wait(timeout=1) after the output ended.
WaitAfterOutput ==
  /\ pc = "wait"
  /\ IF proc = "exited"
     THEN ReportExit
     ELSE /\ pc' = "wait_timeout"
          /\ UNCHANGED <<success, results, log>>
  /\ UNCHANGED <<inputVars, cancel_set, i, pair, success_count, cmd,
                 output_file, result, exc, childVars, attempted, spawned,
                 postCalls, attribOutcome, cancelAt>>
  /\ UNCHANGED <<cancelWhen, forwarded, fnVars>>

\* Lines 458-459: after TimeoutExpired the event is checked; terminate()
\* when it is set.
WaitTimeoutCheck ==
  /\ pc = "wait_timeout"
  /\ termAt' = IF IsCancelled THEN "wait" ELSE termAt
  /\ pc' = "wait_exit"
  /\ UNCHANGED <<inputVars, cancel_set, i, pair, success_count, cmd,
                 output_file, success, result, exc, proc, stdout, pending,
                 written, returncode, killed, attempted, spawned, results,
                 postCalls, attribOutcome, cancelAt, log>>
  /\ UNCHANGED <<cancelWhen, forwarded, fnVars>>

\* Lines 460 and 462: wait() without a timeout returns once the child has
\* exited.
WaitForExit ==
  /\ pc = "wait_exit"
  /\ proc = "exited"
  /\ ReportExit
  /\ UNCHANGED <<inputVars, cancel_set, i, pair, success_count, cmd,
                 output_file, result, exc, childVars, attempted, spawned,
                 postCalls, attribOutcome, cancelAt>>
  /\ UNCHANGED <<cancelWhen, forwarded, fnVars>>

(***************************************************************************)
(* Specification                                                           *)
(***************************************************************************)
Next ==
  \/ Cancel
  \/ ChildWrite
  \/ ChildClose
  \/ ChildExit
  \/ RunTranslationBatch
  \/ ForLoopNext
  \/ AfterSingle
  \/ Summary
  \/ RunSingleTranslation
  \/ BuildCommand
  \/ PostProcess
  \/ AddTranslatorInfo
  \/ Popen
  \/ ReadLoopCheck
  \/ TerminateWait
  \/ ReadLine
  \/ WaitAfterOutput
  \/ WaitTimeoutCheck
  \/ WaitForExit

Spec == Init /\ [][Next]_vars

TypeOK ==
  /\ pc \in {"start", "loop", "after_single", "summary", "returned",
             "raised"} \cup PairPcs
  /\ i \in 0..total_count
  /\ success_count \in 0..total_count
  /\ result \in {"none", "True", "False"}
  /\ exc \in {"none", "TypeError", "UnboundLocalError"}
  /\ proc \in {"none", "running", "exited"}
  /\ pending \in 0..Len(child_output)

(***************************************************************************)
(* add_translator_info, statement by statement                             *)
(***************************************************************************)
\* Most captions a subtitle file of this model holds.
MaxCaptions == 2

\* datetime.timedelta(seconds=5), in seconds
FiveSeconds == 5

\* datetime.timedelta(seconds=1)
OneSecond == 1

\* datetime.timedelta(seconds=0)
ZeroSeconds == 0

\* Start and end times of the captions of a file, in seconds.
SrtTimes == {0, 2, 5, 10}

\* Caption bodies of a file: blank, and not blank.
SrtBodies == {<<>>, <<"t","e","x","t">>}

\* translator_info: f"# Translated by {model_name} #"
TranslatorInfo(model_name) == <<"#"," ","T","r","a","n","s","l","a","t","e","d"," ","b","y"," ">> \o model_name \o <<" ","#">>

\* The info argument add_translator_info is called with.
Info == TranslatorInfo(<<"g","e","m","i","n","i","-","2",".","0","-","f","l","a","s","h">>)

\* A file of n caption blocks, numbered 1..n as a subtitle file is.
SrtFilesOf(n) ==
  {[k \in 1..n |-> [index |-> k, start |-> f[k].start, end |-> f[k].end,
                    content |-> f[k].content]] :
     f \in [1..n -> [start : SrtTimes, end : SrtTimes, content : SrtBodies]]}

\* An existing file holding the given caption blocks.
SrtFile(blocks) == [exists |-> TRUE, parseable |-> TRUE, blocks |-> blocks]

\* A file srt.parse raises SRTParseError for.
Unparseable == [exists |-> TRUE, parseable |-> FALSE, blocks |-> <<>>]

\* What dest_srt_file can be when add_translator_info is called, for files
\* of up to n captions.
SrtFiles(n) ==
  {SrtFile(blocks) : blocks \in UNION {SrtFilesOf(m) : m \in 0..n}}
    \cup {Unparseable, MissingFile}

\* srt.parse: the captions of the file in file order, each with the index,
\* times and body its block states.
SrtParse(srt_content) ==
  [k \in 1..Len(srt_content.blocks) |->
     [index |-> srt_content.blocks[k].index,
      start |-> srt_content.blocks[k].start,
      end |-> srt_content.blocks[k].end,
      content |-> srt_content.blocks[k].content]]

\* Variant of FirstStart that takes the earliest caption of the list.
RECURSIVE FirstStart_Earliest(_)
FirstStart_Earliest(subs) ==
  IF subs = <<>> THEN FiveSeconds
  ELSE IF Len(subs) = 1 THEN subs[1].start
  ELSE LET rest == FirstStart_Earliest(Tail(subs))
       IN IF subs[1].start < rest THEN subs[1].start ELSE rest

\* Lines 560-564
FirstStart(subs) ==
  IF subs # <<>> THEN subs[1].start ELSE FiveSeconds

\* Line 567
EndTime(first_start) ==
  IF first_start < FiveSeconds THEN first_start ELSE FiveSeconds

\* Variant of StartTime that starts the caption at 0 s whatever its end.
StartTime_AlwaysZero(end_time) == ZeroSeconds

\* Lines 570-573
StartTime(end_time) ==
  IF end_time = FiveSeconds THEN OneSecond ELSE ZeroSeconds

\* Lines 576-581
NewSub(subs, info) ==
  [index |-> 1, start |-> StartTime(EndTime(FirstStart(subs))),
   end |-> EndTime(FirstStart(subs)), content |-> info]

\* Subtitle.__lt__: captions compare by (start, end, index).
SubtitleLt(a, b) ==
  \/ a.start < b.start
  \/ a.start = b.start /\ a.end < b.end
  \/ a.start = b.start /\ a.end = b.end /\ a.index < b.index

\* sorted() is stable: x goes behind every caption it is not less than.
RECURSIVE InsertSorted(_, _)
InsertSorted(sorted, x) ==
  IF sorted = <<>> THEN <<x>>
  ELSE IF SubtitleLt(x, Head(sorted)) THEN <<x>> \o sorted
  ELSE <<Head(sorted)>> \o InsertSorted(Tail(sorted), x)

RECURSIVE SortSubtitles(_)
SortSubtitles(subs) ==
  IF subs = <<>> THEN <<>>
  ELSE InsertSorted(SortSubtitles(SubSeq(subs, 1, Len(subs) - 1)),
                    subs[Len(subs)])

\* srt._should_skip_sub: no content, a negative start, or a start that is
\* not before the end.
ShouldSkipSub(sub) ==
  \/ Strip(sub.content, Whitespace) = <<>>
  \/ sub.start < ZeroSeconds
  \/ sub.start >= sub.end

\* srt.sort_and_reindex(subtitles) with its defaults start_index=1 and
\* skip=True: sorted, the skipped captions left out, numbered from 1.
SortAndReindex(subs) ==
  LET kept == SelectSeq(SortSubtitles(subs), LAMBDA sub : ~ShouldSkipSub(sub))
  IN [k \in 1..Len(kept) |->
        [index |-> k, start |-> kept[k].start, end |-> kept[k].end,
         content |-> kept[k].content]]

\* srt.compose(subtitles) with its default reindex=True: the blocks of the
\* captions, sorted and numbered once more.
SrtCompose(subs) == SortAndReindex(subs)

\* The variables of the batch add_translator_info leaves alone.
srtFrame ==
  <<inputVars, cancel_set, i, pair, success_count, cmd, output_file,
    success, result, exc, childVars, attempted, spawned, results,
    postCalls, cancelAt, cancelWhen, forwarded, cleanVars, tmdbVars>>

\* The inputs a function-level specification does not vary.
FixedInputs ==
  /\ gst_cmd = FindGstCommand(TRUE, FALSE, FALSE)
  /\ total_count = 0
  /\ config = CHOOSE c \in Configs : c.add_translator_info
  /\ hasEvent = FALSE
  /\ child_output = <<>>

\* add_translator_info(dest_srt_file, info) is called.
SrtInit ==
  /\ FixedInputs
  /\ codeOrder = LanguageCodeList
  /\ BatchIdle
  /\ CleanIdle
  /\ TmdbIdle
  /\ pc = "ati_exists"
  /\ disk \in SrtFiles(MaxCaptions)
  /\ srt_original = disk
  /\ subtitles = <<>>
  /\ new_sub = NoSub

\* add_translator_info ends with the given outcome and message.
AtiEnd(outcome) ==
  /\ attribOutcome' = outcome
  /\ Logged(IF ~HasLogger THEN {}
            ELSE IF outcome = "file_not_found" THEN {"attrib_file_not_found"}
            ELSE IF outcome = "added" THEN {"attrib_added"}
            ELSE {"attrib_error"})
  /\ pc' = "ati_done"

\* Lines 548-551
AtiExists ==
  /\ pc = "ati_exists"
  /\ IF ~disk.exists
     THEN AtiEnd("file_not_found")
     ELSE /\ pc' = "ati_read"
          /\ UNCHANGED <<attribOutcome, log>>
  /\ UNCHANGED <<srtFrame, srtVars>>

\* Lines 554-558: the file is read and parsed; either can raise.
AtiRead ==
  /\ pc = "ati_read"
  /\ \/ /\ AtiEnd("read_error")
        /\ UNCHANGED subtitles
     \/ /\ ~disk.parseable
        /\ AtiEnd("parse_error")
        /\ UNCHANGED subtitles
     \/ /\ disk.parseable
        /\ subtitles' = SrtParse(disk)
        /\ pc' = "ati_insert"
        /\ UNCHANGED <<attribOutcome, log>>
  /\ UNCHANGED <<srtFrame, disk, srt_original, new_sub>>

\* Lines 560-586: the caption is constructed, put first in the list, and
\* the list is sorted and renumbered.
AtiInsert ==
  /\ pc = "ati_insert"
  /\ new_sub' = NewSub(subtitles, Info)
  /\ subtitles' = SortAndReindex(<<new_sub'>> \o subtitles)
  /\ pc' = "ati_open"
  /\ UNCHANGED <<srtFrame, disk, srt_original, attribOutcome, log>>

\* Line 589: open(dest_srt_file, "w") empties the file, or raises.
AtiOpen ==
  /\ pc = "ati_open"
  /\ \/ /\ AtiEnd("write_error")
        /\ UNCHANGED disk
     \/ /\ disk' = SrtFile(<<>>)
        /\ pc' = "ati_write"
        /\ UNCHANGED <<attribOutcome, log>>
  /\ UNCHANGED <<srtFrame, srt_original, subtitles, new_sub>>

\* Line 590 and the end of the with block: the composed text is written
\* and the file closed; a failure leaves the part written so far.
AtiWrite ==
  /\ pc = "ati_write"
  /\ LET composed == SrtCompose(subtitles)
     IN \/ /\ disk' = SrtFile(composed)
           /\ AtiEnd("added")
        \/ \E n \in 0..(Len(composed) - 1) :
             /\ disk' = SrtFile(SubSeq(composed, 1, n))
             /\ AtiEnd("write_error")
  /\ UNCHANGED <<srtFrame, srt_original, subtitles, new_sub>>

SrtNext ==
  \/ AtiExists
  \/ AtiRead
  \/ AtiInsert
  \/ AtiOpen
  \/ AtiWrite

SrtSpec == SrtInit /\ [][SrtNext]_vars

(***************************************************************************)
(* _clean_filename_from_language_codes, called on its own                  *)
(***************************************************************************)
\* Most parts a filename stem of this model is made of.
MaxParts == 3

\* The parts of a stem: two language codes (one of them capitalised), a
\* word that is no language code, and the empty part, which gives leading,
\* trailing and repeated separators.
StemParts == {<<"E","n">>, <<"e","t">>, <<"x">>, <<>>}

\* The separators the three patterns know.
StemSeparators == {".", "-", "_"}

\* Stems of up to n parts with one separator between neighbours.
RECURSIVE StemsOf(_)
StemsOf(n) ==
  IF n <= 1 THEN StemParts
  ELSE LET shorter == StemsOf(n - 1)
       IN shorter \cup {s \o <<sep>> \o part :
                          s \in shorter, sep \in StemSeparators,
                          part \in StemParts}

\* The language_codes set iterated last to first.
ReversedCodeList ==
  [k \in 1..Len(LanguageCodeList) |->
     LanguageCodeList[Len(LanguageCodeList) + 1 - k]]

\* Iteration orders of the language_codes set: a set of strings is iterated
\* in the order of the strings' hashes, which are salted per process, so
\* two codes can come in either order.
CleanOrders == {LanguageCodeList, ReversedCodeList}

\* The variables of the batch the function leaves alone.
cleanFrame ==
  <<inputVars, cancel_set, i, pair, success_count, cmd, output_file,
    success, result, exc, childVars, attempted, spawned, results,
    postCalls, attribOutcome, cancelAt, cancelWhen, forwarded, log,
    srtVars, tmdbVars>>

\* _clean_filename_from_language_codes(filename_stem) is called in a
\* process with some iteration order.
CleanInit ==
  /\ FixedInputs
  /\ BatchIdle
  /\ SrtIdle
  /\ TmdbIdle
  /\ codeOrder \in CleanOrders
  /\ pc = "clean_call"
  /\ filename_stem \in StemsOf(MaxParts)
  /\ cleaned_stem = PyNone

\* Lines 277-298
CleanCall ==
  /\ pc = "clean_call"
  /\ cleaned_stem' = CleanFilenameFromLanguageCodes(filename_stem, codeOrder)
  /\ pc' = "clean_return"
  /\ UNCHANGED <<cleanFrame, filename_stem>>

CleanNext == CleanCall

CleanSpec == CleanInit /\ [][CleanNext]_vars

(***************************************************************************)
(* _build_gst_command, called for one pair                                 *)
(***************************************************************************)
\* pair.get('subtitle'): absent, a sentinel, a file, and a file whose name
\* ends with the text of a sentinel.
BuildSubtitles == {<<>>, NoMatch, SubtitleReal, <<"d","/","x","N","o","n","e">>}

\* pair.get('video')
BuildVideos == {PyNone, <<>>, NoneStr, VideoReal, <<"v","/","y","N","o"," ","m","a","t","c","h">>}

BuildPairs == [subtitle : BuildSubtitles, video : BuildVideos]

\* The configurations the builder is called with.
BuildConfigs ==
  [language : {<<"P","o","l","i","s","h">>},
   language_code : {<<"p","l">>},
   gemini_api_key : {<<"k">>},
   model : {<<"g","e","m","i","n","i","-","2",".","0","-","f","l","a","s","h">>, <<"g","e","m","i","n","i","-","2",".","5","-","f","l","a","s","h">>, <<"2",".","0">>},
   overview : {<<>>, <<" ">>, <<" ","O"," ">>},
   movie_title : {<<>>, <<" ","M">>},
   is_tv_series : BOOLEAN,
   extract_audio : BOOLEAN,
   add_translator_info : {FALSE}]

\* _run_single_translation is about to call _build_gst_command (line 139)
\* for the only pair of a batch.
BuildInit ==
  /\ gst_cmd = FindGstCommand(TRUE, FALSE, FALSE)
  /\ total_count = 1
  /\ config \in BuildConfigs
  /\ codeOrder = LanguageCodeList
  /\ hasEvent = FALSE
  /\ child_output = <<>>
  /\ pc = "build"
  /\ i = 1
  /\ pair \in BuildPairs
  /\ LoopIdle
  /\ CleanIdle
  /\ SrtIdle
  /\ TmdbIdle

BuildNext == BuildCommand

BuildSpec == BuildInit /\ [][BuildNext]_vars

(***************************************************************************)
(* _run_single_translation, called for the only pair of a batch            *)
(***************************************************************************)
\* The lines a child prints at most in these specifications.
MaxOutput == 2

\* The length of a line whose characters are varied.
MaxLineLen == 3

\* run_translation_batch has bound the only pair and found the event not
\* set at line 86: _run_single_translation is called (line 92).
SingleInit(events, scripts) ==
  /\ gst_cmd = FindGstCommand(TRUE, FALSE, FALSE)
  /\ total_count = 1
  /\ config = CHOOSE c \in Configs : c.add_translator_info
  /\ codeOrder = LanguageCodeList
  /\ hasEvent \in events
  /\ child_output \in scripts
  /\ pc = "single"
  /\ i = 1
  /\ pair = [subtitle |-> SubtitleReal, video |-> VideoReal]
  /\ LoopIdle
  /\ CleanIdle
  /\ SrtIdle
  /\ TmdbIdle

\* The child prints up to MaxOutput lines, each blank or coloured.
ExecInit == SingleInit(BOOLEAN, [1..MaxOutput -> OutputLines])

\* The steps of the worker thread.
Worker ==
  \/ ForLoopNext
  \/ AfterSingle
  \/ Summary
  \/ RunSingleTranslation
  \/ BuildCommand
  \/ PostProcess
  \/ AddTranslatorInfo
  \/ Popen
  \/ ReadLoopCheck
  \/ TerminateWait
  \/ ReadLine
  \/ WaitAfterOutput
  \/ WaitTimeoutCheck
  \/ WaitForExit

ExecNext ==
  \/ Cancel
  \/ ChildWrite
  \/ ChildClose
  \/ ChildExit
  \/ Worker

ExecSpec == ExecInit /\ [][ExecNext]_vars

\* The worker thread cannot take a step: it is blocked in readline() with
\* nothing to read from a pipe the child holds open, or in the wait() of
\* lines 460 and 462 for a child that has not exited, or it has left
\* run_translation_batch.
WorkerBlocked ==
  \/ pc \in {"returned", "raised"}
  \/ pc = "readline" /\ pending = 0 /\ stdout # "eof"
  \/ pc = "wait_exit" /\ proc # "exited"

\* A step of the worker thread, told by its position: every step of Worker
\* moves pc, and no step of the control thread or of the child does.
WorkerStep ==
  /\ ~WorkerBlocked
  /\ pc' \in {"loop", "after_single", "summary", "returned", "raised"}
             \cup PairPcs
  /\ pc' # pc

\* The worker thread keeps being scheduled: when it can take a step, it
\* takes one.  Nothing is assumed of the child, nor of the control thread.
ExecFairSpec == ExecSpec /\ WF_pc(WorkerStep)

\* The characters the varied lines are made of.
AnsiAlphabet == {Esc, "[", "3", " ", "M", "c"}

\* The lines of at most n characters.
AnsiLines(n) == UNION {[1..k -> AnsiAlphabet] : k \in 0..n}

\* What the child prints when no event is passed: one line of any
\* characters, or MaxOutput lines, each blank or coloured.
StripScripts(n) ==
  {<<line>> : line \in AnsiLines(n)} \cup [1..MaxOutput -> OutputLines]

StripInit == SingleInit({FALSE}, StripScripts(MaxLineLen))

StripNext ==
  \/ ChildWrite
  \/ ChildClose
  \/ ChildExit
  \/ ForLoopNext
  \/ AfterSingle
  \/ Summary
  \/ RunSingleTranslation
  \/ BuildCommand
  \/ PostProcess
  \/ AddTranslatorInfo
  \/ Popen
  \/ ReadLoopCheck
  \/ ReadLine
  \/ WaitAfterOutput
  \/ WaitTimeoutCheck
  \/ WaitForExit

StripSpec == StripInit /\ [][StripNext]_vars

(***************************************************************************)
(* Metadata lookups: the UI thread of DragDropGUI (gui/main_window.py),    *)
(* the lookup threads it starts, and TMDBHelper (utils/tmdb_helper.py)     *)
(***************************************************************************)
\* The files the user drops at most, and the lookup threads followed.
MaxDrops == 2

MaxLookups == 2

\* c repeated n times.
Repeat(c, n) == [k \in 1..n |-> c]

\* A v3 API key, a v4 read access token (three segments, 122 characters),
\* and keys that have only one of the two marks of a token, or just miss
\* one: three short segments, 101 characters with no dot, four segments,
\* three segments of 100 characters in all.
TmdbKeys ==
  {Repeat("k", 32),
   Repeat("a", 40) \o <<".">> \o Repeat("b", 40) \o <<".">> \o Repeat("c", 40),
   <<"a",".","b",".","c">>,
   Repeat("k", 101),
   Repeat("a", 40) \o <<".","b",".">> \o Repeat("c", 40) \o <<".">> \o Repeat("d", 39),
   Repeat("a", 40) \o <<".">> \o Repeat("b", 40) \o <<".">> \o Repeat("c", 18)}

\* api_key.count('.')
CountDots(api_key) == Cardinality({k \in DOMAIN api_key : api_key[k] = "."})

\* TMDBHelper._is_bearer_token
IsBearerToken(api_key) ==
  IF ~Truthy(api_key) THEN FALSE
  ELSE CountDots(api_key) = 2 /\ Len(api_key) > 100

\* TMDBHelper._prepare_request: whether the request carries the
\* Authorization header, and whether it carries the api_key parameter.
PrepareRequest(api_key) ==
  IF IsBearerToken(api_key)
  THEN [authorization |-> TRUE, api_key |-> FALSE]
  ELSE [authorization |-> FALSE, api_key |-> TRUE]

\* Lines 1360-1365: the request of _start_tmdb_fetch_by_id_async.
FetchByIdAuth == [authorization |-> FALSE, api_key |-> TRUE]

\* str(n), n >= 0
RECURSIVE Str(_)
Str(n) ==
  LET digit == <<"0","1","2","3","4","5","6","7","8","9">>[(n % 10) + 1]
  IN  IF n < 10 THEN <<digit>> ELSE Str(n \div 10) \o <<digit>>

\* int(text) succeeds, for the texts the field holds here.
IsNumeric(text) ==
  /\ text # <<>>
  /\ \A k \in DOMAIN text : text[k] \in {"0","1","2","3","4","5","6","7","8","9"}

\* The titles extract_movie_info gives for the files dropped.
Titles == {<<"A">>, <<"B">>}

\* The entry the service holds for a title.
MovieOf(title) ==
  IF title = <<"A">>
  THEN [id |-> 603, overview |-> <<"a","b","o","u","t"," ","A">>, poster_path |-> <<"/","a",".","j","p","g">>]
  ELSE [id |-> 604, overview |-> <<"a","b","o","u","t"," ","B">>, poster_path |-> <<>>]

\* The entry the service holds for an id.
MovieById(id_text) ==
  IF id_text = Str(603) THEN MovieOf(<<"A">>) ELSE MovieOf(<<"B">>)

\* Everything but the metadata fields and threads.
tmdbFrame ==
  <<inputVars, cancel_set, pc, i, pair, success_count, cmd, output_file,
    success, result, exc, childVars, attempted, spawned, results,
    postCalls, attribOutcome, cancelAt, cancelWhen, forwarded, log,
    cleanVars, srtVars>>

\* The window is up (lines 501-577): the fields hold what the saved
\* configuration held.
TmdbInit ==
  /\ FixedInputs
  /\ codeOrder = LanguageCodeList
  /\ BatchIdle
  /\ CleanIdle
  /\ SrtIdle
  /\ pc = "mainloop"
  /\ settings \in [tmdb_api_key : TmdbKeys \cup {<<>>},
                   auto_fetch_tmdb : BOOLEAN,
                   is_tv_series : BOOLEAN]
  /\ tmdb_id \in {<<>>, Str(603)}
  /\ overview_text = <<>>
  /\ dropped = <<>>
  /\ timers = <<>>
  /\ lookups = <<>>
  /\ callbacks = <<>>
  /\ sent = {}

\* threading.Thread(target=..., daemon=True).start()
StartLookup(kind, arg, silent) ==
  lookups' = Append(lookups, [kind |-> kind, arg |-> arg, silent |-> silent,
                              api_key |-> Strip(settings.tmdb_api_key,
                                                Whitespace),
                              at |-> "test_api_key", found |-> FALSE])

\* A request leaves the given thread.
Send(endpoint, auth, thread) ==
  sent' = sent \cup {[endpoint |-> endpoint,
                      authorization |-> auth.authorization,
                      api_key |-> auth.api_key,
                      thread |-> thread]}

\* _process_single_file: the fields are cleared (clear_treeview) and the
\* auto-fetch is scheduled for 100 ms later.
ProcessSingleFile ==
  /\ pc = "mainloop"
  /\ Len(dropped) < MaxDrops
  /\ \E title \in Titles :
       /\ dropped' = Append(dropped, title)
       /\ timers' = Append(timers, title)
  /\ tmdb_id' = <<>>
  /\ overview_text' = <<>>
  /\ UNCHANGED <<settings, lookups, callbacks, sent, tmdbFrame>>

\* _should_auto_fetch_tmdb
ShouldAutoFetchTmdb ==
  /\ settings.auto_fetch_tmdb
  /\ Truthy(Strip(settings.tmdb_api_key, Whitespace))
  /\ ~Truthy(Strip(tmdb_id, Whitespace))

\* _auto_fetch_tmdb_for_movie, run by the timer.
AutoFetchTmdbForMovie ==
  /\ pc = "mainloop"
  /\ timers # <<>>
  /\ timers' = Tail(timers)
  /\ IF ShouldAutoFetchTmdb /\ Len(lookups) < MaxLookups
     THEN StartLookup("search", Head(timers), TRUE)
     ELSE UNCHANGED lookups
  /\ UNCHANGED <<settings, tmdb_id, overview_text, dropped, callbacks, sent,
                 tmdbFrame>>

\* fetch_tmdb_info: the button, with a key and a numeric id in the fields
\* and the dialog confirmed.
FetchTmdbInfo ==
  /\ pc = "mainloop"
  /\ Truthy(Strip(settings.tmdb_api_key, Whitespace))
  /\ IsNumeric(Strip(tmdb_id, Whitespace))
  /\ Len(lookups) < MaxLookups
  /\ StartLookup("fetch", Strip(tmdb_id, Whitespace), FALSE)
  /\ UNCHANGED <<settings, tmdb_id, overview_text, dropped, timers, callbacks,
                 sent, tmdbFrame>>

\* TMDBHelper.test_api_key, called by a lookup thread: status 200 lets the
\* thread go on, anything else ends it.
TestApiKey ==
  /\ \E t \in DOMAIN lookups :
       /\ lookups[t].at = "test_api_key"
       /\ Send("configuration", PrepareRequest(lookups[t].api_key), "lookup")
       /\ \E valid \in BOOLEAN :
            lookups' = [lookups EXCEPT
                          ![t].at = IF valid THEN "request" ELSE "done"]
  /\ UNCHANGED <<settings, tmdb_id, overview_text, dropped, timers, callbacks,
                 tmdbFrame>>

\* search_tmdb, lines 1495-1506: find_best_match, and the update of the
\* fields handed to the UI thread when a title was found.
SearchTmdb ==
  /\ \E t \in DOMAIN lookups :
       /\ lookups[t].kind = "search"
       /\ lookups[t].at = "request"
       /\ Send(IF settings.is_tv_series THEN "search/tv" ELSE "search/movie",
               PrepareRequest(lookups[t].api_key), "lookup")
       /\ \E found \in BOOLEAN :
            /\ lookups' = [lookups EXCEPT ![t].at = "done",
                                          ![t].found = found]
            /\ callbacks' =
                 IF found
                 THEN Append(callbacks,
                             [fn |-> "_update_tmdb_id_field",
                              movie |-> MovieOf(lookups[t].arg),
                              silent |-> lookups[t].silent])
                 ELSE callbacks
  /\ UNCHANGED <<settings, tmdb_id, overview_text, dropped, timers, tmdbFrame>>

\* fetch_tmdb, lines 1352-1411: the request by id, and the update of the
\* overview handed to the UI thread on status 200.
FetchTmdb ==
  /\ \E t \in DOMAIN lookups :
       /\ lookups[t].kind = "fetch"
       /\ lookups[t].at = "request"
       /\ Send(IF settings.is_tv_series THEN "tv/{tmdb_id}"
                                        ELSE "movie/{tmdb_id}",
               FetchByIdAuth, "lookup")
       /\ \E found \in BOOLEAN :
            /\ lookups' = [lookups EXCEPT ![t].at = "done",
                                          ![t].found = found]
            /\ callbacks' =
                 IF found
                 THEN Append(callbacks,
                             [fn |-> "_update_overview_only",
                              movie |-> MovieById(lookups[t].arg),
                              silent |-> lookups[t].silent])
                 ELSE callbacks
  /\ UNCHANGED <<settings, tmdb_id, overview_text, dropped, timers, tmdbFrame>>

\* load_image, line 779: the poster is downloaded by the calling thread.
LoadImage(wanted) ==
  IF wanted
  THEN Send("image", [authorization |-> FALSE, api_key |-> FALSE], "ui")
  ELSE UNCHANGED sent

\* The UI thread runs the oldest callback: _update_tmdb_id_field or
\* _update_overview_only.
RunCallback ==
  /\ pc = "mainloop"
  /\ callbacks # <<>>
  /\ callbacks' = Tail(callbacks)
  /\ LET call == Head(callbacks) IN
     /\ tmdb_id' = IF call.fn = "_update_tmdb_id_field"
                   THEN Str(call.movie.id) ELSE tmdb_id
     /\ overview_text' = call.movie.overview
     /\ LoadImage(/\ Truthy(call.movie.poster_path)
                  /\ call.fn = "_update_overview_only" => ~call.silent)
  /\ UNCHANGED <<settings, dropped, timers, lookups, tmdbFrame>>

TmdbNext ==
  \/ ProcessSingleFile
  \/ AutoFetchTmdbForMovie
  \/ FetchTmdbInfo
  \/ TestApiKey
  \/ SearchTmdb
  \/ FetchTmdb
  \/ RunCallback

TmdbSpec == TmdbInit /\ [][TmdbNext]_vars

(***************************************************************************)
(* Properties of a batch (Spec)                                            *)
(***************************************************************************)
\* A path is usable: non-empty and not one of the two sentinels.
Usable(path) == Truthy(path) /\ path \notin {NoMatch, NoneStr}

\* The messages that report the failure of a pair.
FailureKinds ==
  {"cancel_before_pair", "build_failed", "exec_error", "cancel_process",
   "pair_error"}

\* The batch has ended, by a return or by an exception.
Ended == pc \in {"returned", "raised"}

\* C1: for a pair whose subtitle and video are both unusable the builder
\* returns no command and no child is spawned for the pair; a command that
\* was built always has an -i or a -v input.
C1_BuildFailureWithoutInput ==
  /\ (~Usable(pair.subtitle) /\ ~Usable(pair.video))
        => (cmd = <<>> /\ i \notin spawned)
  /\ cmd # <<>> => (HasFlag(cmd, <<"-","i">>) \/ HasFlag(cmd, <<"-","v">>))

\* C2: the failure of a pair becomes a logged failure result of that pair:
\* no exception raised while a pair is processed leaves
\* run_translation_batch, a failed pair has its failure message in the log,
\* and a batch that reaches the summary without cancellation has run all
\* its pairs.
C2_PairFailureIsContained ==
  /\ pc = "raised" => i \notin attempted
  /\ (pc = "after_single" /\ ~success) => log \cap FailureKinds # {}
  /\ (pc = "summary" /\ ~IsCancelled) => Len(results) = total_count

\* C3: when the event is set while pair k is processed, no pair after k is
\* ever built or spawned, the pairs before k have run to completion, and
\* the batch ends reporting the cancellation and returning False.
C3_CancelStopsLaterPairs ==
  cancelAt > 0 =>
    /\ attempted \subseteq 1..cancelAt
    /\ spawned \subseteq 1..cancelAt
    /\ Len(results) >= cancelAt - 1
    /\ Ended => (pc = "returned" /\ result = "False" /\ "cancelled" \in log)

\* C4: run_translation_batch returns True exactly when the executable was
\* found, every pair of the list was run with success and the event is not
\* set when the loop has ended; in every other case it returns False.
C4_BatchResult ==
  Ended =>
    /\ pc = "returned"
    /\ result = IF /\ gst_cmd # PyNone
                   /\ Len(results) = total_count
                   /\ \A k \in 1..Len(results) : results[k]
                   /\ ~IsCancelled
                THEN "True" ELSE "False"

\* C5: without an executable run_translation_batch builds no command and
\* spawns no child, whatever the pairs and the event are; it logs the
\* diagnostic and returns False.
C5_DiscoveryFailure ==
  gst_cmd = PyNone =>
    /\ pc \in {"start", "returned"}
    /\ attempted = {} /\ spawned = {}
    /\ pc = "returned" => (result = "False" /\ "gst_not_found" \in log)

C5_Witness ==
  /\ gst_cmd = PyNone
  /\ pc = "returned"
  /\ total_count > 0
  /\ IsCancelled

\* C6: wherever terminate() was called, the worker never waits without a
\* timeout for a child that is still running, kill() is only called after
\* terminate(), and the pair is reported as failed.
C6_BoundedTermination ==
  /\ (termAt # "none" /\ proc = "running") => pc # "wait_exit"
  /\ killed => termAt # "none"
  /\ (termAt # "none" /\ pc \in {"post", "attrib", "after_single"})
        => ~success

\* C7: when the output ended and terminate() was never called, the result
\* of _execute_command is True exactly when the exit code is 0.
C7_ExitCodeDecides ==
  (/\ pc \in {"post", "attrib", "after_single"}
   /\ proc = "exited"
   /\ termAt = "none")
    => (success <=> returncode = 0)

C7_Witness ==
  /\ pc = "after_single"
  /\ proc = "exited"
  /\ termAt = "none"
  /\ returncode = 0
  /\ success
  /\ IsCancelled

\* C8 (as claimed): when a pair returns, add_translator_info has been
\* called once if the pair succeeded and attribution is enabled, and not
\* at all otherwise.
C8_Original ==
  pc = "after_single" =>
    Len(postCalls) = IF success /\ config.add_translator_info
                     THEN 1 ELSE 0

\* C8 (amended): when a pair returns, add_translator_info has been called
\* at most once, and only for a pair that succeeded with attribution
\* enabled; it has been called once when moreover the event is not set;
\* and it is not called when the event is set at the check of line 149.
C8_AttributionOncePerSuccess ==
  /\ [](pc = "after_single" =>
          /\ Len(postCalls) <= 1
          /\ Len(postCalls) = 1 => (success /\ config.add_translator_info)
          /\ (success /\ config.add_translator_info /\ ~IsCancelled)
                => Len(postCalls) = 1)
  /\ [][(pc = "post" /\ IsCancelled) => pc' # "attrib"]_vars

C8_Witness ==
  /\ pc = "after_single"
  /\ success
  /\ Len(postCalls) = 1
  /\ i = 2

\* C9: the path handed to add_translator_info is the -o path of the
\* command built for the same pair: the cleaned stem plus
\* .<language_code>.srt next to the subtitle when it is usable, else next
\* to the video.
C9_PostProcessingPathIsOutput ==
  (postCalls # <<>> /\ (Usable(pair.subtitle) \/ Usable(pair.video))) =>
    /\ postCalls[1] = ArgOf(cmd, <<"-","o">>)
    /\ postCalls[1] =
         OutputPathOf(IF Usable(pair.subtitle)
                      THEN pair.subtitle ELSE pair.video,
                      config.language_code, codeOrder)

\* C10: a failure of add_translator_info is logged, raises nothing, leaves
\* the result of the pair True, and the pair is counted as a success.
C10_AttributionFailureIsHarmless ==
  /\ [](attribOutcome \in AttribFailures =>
          /\ log \cap {"attrib_file_not_found", "attrib_error"} # {}
          /\ success
          /\ results[i]
          /\ exc = "none")
  /\ [][(pc = "after_single" /\ pc' # pc
            /\ attribOutcome \in AttribFailures)
          => success_count' = success_count + 1]_vars

C10_Witness ==
  /\ attribOutcome = "write_error"
  /\ pc = "loop"
  /\ success_count = 2

(***************************************************************************)
(* Properties of add_translator_info (SrtSpec)                             *)
(***************************************************************************)
\* The caption of lines 576-581 has been constructed.
Constructed == new_sub # NoSub

\* add_translator_info has returned after writing the file.
Added == pc = "ati_done" /\ attribOutcome = "added"

\* C11 as stated: for a file whose first caption starts at t, the caption
\* add_translator_info inserts spans from 0 s to min(t, 5 s); a first
\* caption at 10 s gives 0 s to 5 s, one at 2 s gives 0 s to 2 s.
C11_Original ==
  (Constructed /\ srt_original.blocks # <<>>) =>
    LET t == srt_original.blocks[1].start
    IN /\ new_sub.start = 0
       /\ new_sub.end = (IF t < 5 THEN t ELSE 5)

\* C11, amended: for a file whose first caption starts at t, the inserted
\* caption spans from 1 s to 5 s when t is 5 s or more, and from 0 s to t
\* when t is less than 5 s; a first caption at 10 s gives 1 s to 5 s, one
\* at 2 s gives 0 s to 2 s.
C11_AttributionSpan ==
  (Constructed /\ srt_original.blocks # <<>>) =>
    LET t == srt_original.blocks[1].start
    IN /\ t >= 5 => (new_sub.start = 1 /\ new_sub.end = 5)
       /\ t < 5 => (new_sub.start = 0 /\ new_sub.end = t)
       /\ t = 10 => <<new_sub.start, new_sub.end>> = <<1, 5>>
       /\ t = 2 => <<new_sub.start, new_sub.end>> = <<0, 2>>

\* The file's first caption starts at 10 s and the caption was added from
\* 1 s to 5 s.
C11_Witness ==
  /\ Added
  /\ srt_original.blocks # <<>>
  /\ srt_original.blocks[1].start = 10
  /\ <<new_sub.start, new_sub.end>> = <<1, 5>>

\* C12: the inserted caption ends at min(start of the first caption in the
\* file, 5 s), at 5 s when the file has no captions; it starts at 1 s
\* exactly when it ends at 5 s and at 0 s otherwise; so it never ends after
\* the start of the first caption in the file.
C12_EndAndStart ==
  Constructed =>
    LET orig == srt_original.blocks
        first == IF orig = <<>> THEN 5 ELSE orig[1].start
    IN /\ new_sub.end = (IF first < 5 THEN first ELSE 5)
       /\ new_sub.start = (IF new_sub.end = 5 THEN 1 ELSE 0)
       /\ orig # <<>> => new_sub.end <= orig[1].start

\* A file without captions got the caption from 1 s to 5 s.
C12_Witness ==
  /\ Added
  /\ srt_original.blocks = <<>>
  /\ <<new_sub.start, new_sub.end>> = <<1, 5>>

\* Every caption of the original file has a body, ends after it starts,
\* and the first one in the file starts after 0 s.
PlainOriginal ==
  /\ srt_original.blocks # <<>>
  /\ srt_original.blocks[1].start > 0
  /\ \A k \in 1..Len(srt_original.blocks) :
       /\ srt_original.blocks[k].content # <<>>
       /\ srt_original.blocks[k].start < srt_original.blocks[k].end

\* C13: after add_translator_info succeeds on a parseable file, captions in
\* any order, the rewritten file is in non-decreasing start order with
\* indices 1..n, the attribution caption is the entry with index 1, and
\* every original caption is still there with its start, end and text.
C13_RewrittenFile ==
  (Added /\ PlainOriginal) =>
    LET out == disk.blocks
        orig == srt_original.blocks
    IN /\ \A k \in 1..(Len(out) - 1) : out[k].start <= out[k + 1].start
       /\ \A k \in 1..Len(out) : out[k].index = k
       /\ Len(out) = Len(orig) + 1
       /\ out[1].content = Info
       /\ \A k \in 1..Len(orig) :
            \E j \in 1..Len(out) :
              /\ out[j].start = orig[k].start
              /\ out[j].end = orig[k].end
              /\ out[j].content = orig[k].content

\* C14: the rewrite is atomic: at every moment, and after any failure of
\* the write, the file holds the complete original content or the complete
\* new content, never an empty or partial file.
C14_AtomicRewrite ==
  \/ disk = srt_original
  \/ /\ pc \in {"ati_write", "ati_done"}
     /\ disk = SrtFile(SrtCompose(subtitles))

(***************************************************************************)
(* Properties of _clean_filename_from_language_codes (CleanSpec)           *)
(***************************************************************************)
\* The function has returned.
CleanReturned == pc = "clean_return"

\* part, in lower case, is one of the language codes.
IsLanguageCode(part) ==
  \E k \in 1..Len(LanguageCodeList) :
    LanguageCodeList[k] = [j \in 1..Len(part) |-> LowerC(part[j])]

\* s[a..b] is a component of s: it holds no separator and is delimited on
\* each side by a separator or by the start or end of s.
IsComponent(s, a, b) ==
  /\ a <= b
  /\ a = 1 \/ s[a - 1] \in StemSeparators
  /\ b = Len(s) \/ s[b + 1] \in StemSeparators
  /\ \A k \in a..b : s[k] \notin StemSeparators

\* The components of s.
ComponentsOf(s) ==
  {SubSeq(s, ab[1], ab[2]) :
     ab \in {xy \in (1..Len(s)) \X (1..Len(s)) : IsComponent(s, xy[1], xy[2])}}

\* The language-code tokens of s, in lower case.
TokensOf(s) ==
  {[j \in 1..Len(c) |-> LowerC(c[j])] : c \in {d \in ComponentsOf(s) : IsLanguageCode(d)}}

\* s has no two equal separators side by side.
NoRepeatedSeparator(s) ==
  \A k \in 1..(Len(s) - 1) : ~(s[k] \in StemSeparators /\ s[k + 1] = s[k])

\* s neither starts nor ends with a separator or a space.
NoEdgeSeparator(s) ==
  s # <<>> => (s[1] \notin StemSeparators \cup {" "}
               /\ s[Len(s)] \notin StemSeparators \cup {" "})

\* s with every run of one separator reduced to one character.
Squeezed(s) ==
  LET keep == {k \in 1..Len(s) :
                 ~(k > 1 /\ s[k] \in StemSeparators /\ s[k - 1] = s[k])}
  IN [j \in 1..Cardinality(keep) |->
        s[CHOOSE k \in keep : Cardinality({m \in keep : m <= k}) = j]]

\* s without its leading and trailing separators and spaces.
Trimmed(s) ==
  LET inner == {k \in 1..Len(s) : s[k] \notin StemSeparators \cup {" "}}
  IN IF inner = {} THEN <<>>
     ELSE SubSeq(s, CHOOSE k \in inner : \A m \in inner : k <= m,
                    CHOOSE k \in inner : \A m \in inner : m <= k)

\* C15 as stated: a stem that contains no recognized language-code token
\* is returned unchanged, repeated separators and leading or trailing
\* separators included.
C15_Original ==
  (CleanReturned /\ TokensOf(filename_stem) = {}) =>
    cleaned_stem = filename_stem

\* C15, amended: a stem without a language-code token is returned with
\* every run of '.', of '-' and of '_' reduced to one character and with
\* leading and trailing '.', '-', '_' and spaces removed, or as it is when
\* nothing would be left; so a stem without repeated separators and
\* without a separator or space at either end is returned unchanged.
C15_OnlyTidied ==
  (CleanReturned /\ TokensOf(filename_stem) = {}) =>
    /\ cleaned_stem = (IF Trimmed(Squeezed(filename_stem)) = <<>>
                       THEN filename_stem
                       ELSE Trimmed(Squeezed(filename_stem)))
    /\ (NoRepeatedSeparator(filename_stem) /\ NoEdgeSeparator(filename_stem))
         => cleaned_stem = filename_stem

\* A stem without token and with a repeated separator came back tidied.
C15_Witness ==
  /\ CleanReturned
  /\ TokensOf(filename_stem) = {}
  /\ filename_stem = <<"x",".",".","x">>
  /\ cleaned_stem = <<"x",".","x">>

\* filename_stem has a component that is neither empty nor a language code.
HasPlainComponent(s) == \E c \in ComponentsOf(s) : ~IsLanguageCode(c)

\* C16: for a stem that contains a language-code token delimited by '.',
\* '-', '_' or the start or end of the stem, the returned stem no longer
\* has that token as a component, has no run of two or more equal
\* separators, and has no leading or trailing separator.
C16_TokenRemoved ==
  (CleanReturned /\ TokensOf(filename_stem) # {}
     /\ HasPlainComponent(filename_stem)) =>
    /\ TokensOf(filename_stem) \cap TokensOf(cleaned_stem) = {}
    /\ NoRepeatedSeparator(cleaned_stem)
    /\ NoEdgeSeparator(cleaned_stem)

\* C17: the command builder is deterministic; the cleaned output stem does
\* not depend on the order in which the set of language codes is iterated.
C17_OrderIndependent ==
  CleanReturned =>
    \A order \in CleanOrders :
      CleanFilenameFromLanguageCodes(filename_stem, order) = cleaned_stem

(***************************************************************************)
(* Properties of _build_gst_command (BuildSpec)                            *)
(***************************************************************************)
\* _build_gst_command has returned the command.
Built == pc = "popen"

\* How often flag occurs in cmd.
Occurrences(flag) == Cardinality({k \in 1..Len(cmd) : cmd[k] = flag})

\* C18: a path is usable exactly when it is non-empty and equal to neither
\* "No match" nor "None"; -i (subtitle) and -v (video) are in the command
\* if and only if the path is usable, so a file whose name merely ends in
\* "None" or "No match" is still passed.
C18_FlagsIffUsable ==
  Built =>
    /\ HasFlag(cmd, <<"-","i">>) <=> Usable(pair.subtitle)
    /\ HasFlag(cmd, <<"-","v">>) <=> Usable(pair.video)

\* C19: the command holds the pair --batch-size 100 exactly once when the
\* model identifier contains "2.0", and no --batch-size otherwise.
C19_BatchSize ==
  Built =>
    IF \E k \in 1..(Len(config.model) - 2) :
         SubSeq(config.model, k, k + 2) = <<"2",".","0">>
    THEN /\ Occurrences(<<"-","-","b","a","t","c","h","-","s","i","z","e">>) = 1
         /\ ArgOf(cmd, <<"-","-","b","a","t","c","h","-","s","i","z","e">>) = <<"1","0","0">>
    ELSE Occurrences(<<"-","-","b","a","t","c","h","-","s","i","z","e">>) = 0

\* A command was built for the model gemini-2.0-flash with the batch size.
C19_Witness ==
  /\ Built
  /\ pair.subtitle = SubtitleReal
  /\ config.model = <<"g","e","m","i","n","i","-","2",".","0","-","f","l","a","s","h">>
  /\ ArgOf(cmd, <<"-","-","b","a","t","c","h","-","s","i","z","e">>) = <<"1","0","0">>

\* C20: --description occurs at most once and is absent exactly when the
\* trimmed overview and the trimmed title are both empty; with a title
\* only it is the sentence naming content type and title, with an overview
\* only it is the overview, with both it joins the style guide, content
\* type, title and overview.
C20_Description ==
  Built =>
    LET overview == Strip(config.overview, {" "})
        title == Strip(config.movie_title, {" "})
        kind == IF config.is_tv_series THEN <<"T","V"," ","s","e","r","i","e","s">> ELSE <<"m","o","v","i","e">>
        description == ArgOf(cmd, <<"-","-","d","e","s","c","r","i","p","t","i","o","n">>)
    IN /\ Occurrences(<<"-","-","d","e","s","c","r","i","p","t","i","o","n">>) <= 1
       /\ Occurrences(<<"-","-","d","e","s","c","r","i","p","t","i","o","n">>) = 0
            <=> (overview = <<>> /\ title = <<>>)
       /\ (overview = <<>> /\ title # <<>>) =>
            description = <<"I","t"," ","i","s"," ","a"," ">> \o kind \o <<" ","c","a","l","l","e","d"," ">> \o title \o <<".">>
       /\ (overview # <<>> /\ title = <<>>) => description = overview
       /\ (overview # <<>> /\ title # <<>>) =>
            description = TranslationPrompt \o <<" ","I","t"," ","i","s"," ","a"," ">> \o kind
                            \o <<" ","c","a","l","l","e","d"," ">> \o title \o <<"."," ","D","e","s","c","r","i","p","t","i","o","n",":"," ">>
                            \o overview

\* A command was built for a TV series with a title and no overview.
C20_Witness ==
  /\ Built
  /\ pair.subtitle = SubtitleReal
  /\ config.is_tv_series
  /\ Strip(config.overview, {" "}) = <<>>
  /\ ArgOf(cmd, <<"-","-","d","e","s","c","r","i","p","t","i","o","n">>) = <<"I","t"," ","i","s"," ","a"," ","T","V"," ","s","e","r","i","e","s"," ","c","a","l","l","e","d"," ","M",".">>

(***************************************************************************)
(* Properties of a child's run (StripSpec, ExecSpec, ExecFairSpec, Spec)   *)
(***************************************************************************)
\* The n characters of s from index a on are a control sequence: ESC [,
\* parameter bytes 0x30-0x3F, intermediate bytes 0x20-0x2F, a final byte
\* 0x40-0x7E.
IsControlSequence(s, a, n) ==
  /\ n >= 3
  /\ a + n - 1 <= Len(s)
  /\ s[a] = Esc
  /\ s[a + 1] = "["
  /\ Ord(s[a + n - 1]) \in 64..126
  /\ \E p \in (a + 2)..(a + n - 1) :
       /\ \A m \in (a + 2)..(p - 1) : Ord(s[m]) \in 48..63
       /\ \A m \in p..(a + n - 2) : Ord(s[m]) \in 32..47

\* The two characters of s from index a on are an escape sequence whose
\* second byte is in 0x40..hi: the Fe sequences up to 0x5F (ESC [ opens a
\* control sequence and is none by itself), the Fs sequences (ESC c, the
\* reset, among them) from 0x60 to 0x7E.
IsEscapeSequence(s, a, hi) ==
  /\ a + 1 <= Len(s)
  /\ s[a] = Esc
  /\ s[a + 1] # "["
  /\ Ord(s[a + 1]) \in 64..hi

\* Index k of s lies inside a control sequence or an escape sequence.
InSequence(s, k, hi) ==
  \E a \in 1..k :
     \/ IsEscapeSequence(s, a, hi) /\ k <= a + 1
     \/ \E n \in 3..Len(s) : IsControlSequence(s, a, n) /\ k < a + n

\* s without the characters of its sequences, from index k on.
RECURSIVE WithoutFrom(_, _, _)
WithoutFrom(s, k, hi) ==
  IF k > Len(s) THEN <<>>
  ELSE (IF InSequence(s, k, hi) THEN <<>> ELSE <<s[k]>>)
         \o WithoutFrom(s, k + 1, hi)

\* s with all its ANSI escape sequences removed.
WithoutAnsi(s) == WithoutFrom(s, 1, 126)

\* s with its control sequences and Fe escape sequences removed.
WithoutCsiAndFe(s) == WithoutFrom(s, 1, 95)

\* A step hands one more line to the logger.
Forwards == Len(forwarded') > Len(forwarded)

\* The line this step hands over.
Newest == forwarded'[Len(forwarded')]

\* The lines handed over before were written before it.
NewestIsLatest == \A k \in DOMAIN forwarded : forwarded[k].n < Newest.n

\* The result of the current pair has been reported.
PairReported ==
  \/ Len(results) >= i
  \/ "pair_ok" \in log
  \/ "pair_error" \in log

\* C21 as stated: every line handed to the logger is, up to the white space
\* around it, the child's line with all ANSI escape sequences removed; the
\* lines of a child are handed over in the order written, each before the
\* pair's result is reported.
C21_Original ==
  [][Forwards =>
       /\ Strip(Newest.text, Whitespace)
            = Strip(WithoutAnsi(Newest.line), Whitespace)
       /\ NewestIsLatest
       /\ ~PairReported]_vars

\* C21, amended: every line handed to the logger is three spaces followed
\* by the child's line with its trailing white space stripped and then its
\* control sequences (ESC [ ... final byte) and two-character Fe escape
\* sequences removed; other escape sequences, such as ESC c, stay.  The
\* lines of a child are handed over in the order written, each before the
\* pair's result is reported.
C21_ForwardedLines ==
  [][Forwards =>
       /\ Newest.text
            = LogLine(WithoutCsiAndFe(RStrip(Newest.line, Whitespace)))
       /\ NewestIsLatest
       /\ ~PairReported]_vars

\* The example of the claim: the coloured line is logged as Hello, after a
\* blank line that is not logged and before the result.
C21_Witness ==
  /\ \E k \in DOMAIN forwarded :
        /\ forwarded[k].n = 2
        /\ forwarded[k].line = ColouredLine
        /\ forwarded[k].text = <<" "," "," ","H","e","l","l","o">>
  /\ pc = "returned"

\* The event was set while the child of the pair in progress was running,
\* and the result of that pair has been returned.
CancelledWhileRunning ==
  /\ cancelWhen = "running"
  /\ cancelAt = i
  /\ Len(results) >= i

\* The pair in progress when the event was set has not been counted.
NotCounted ==
  success_count
    <= Cardinality({k \in DOMAIN results : results[k] /\ k # cancelAt})

\* C24: a pair whose child was running when the event was set is reported
\* as a failure and is not added to the success count.
C24_CancelledPairFails ==
  CancelledWhileRunning => ~results[i] /\ NotCounted

\* C25 as stated: every spawn of a child happens in a state where the event
\* is not set.
C25_Original == [][spawned' # spawned => ~cancel_set]_vars

\* C25, amended: once a check of the worker has seen the event set, no new
\* child is spawned.  A child is spawned with the event set only for the
\* pair in progress, when the event was set after the check of line 124 and
\* before Popen (line 410); no later pair spawns one.
C25_SpawnAfterCheck ==
  [][spawned' # spawned /\ cancel_set =>
       cancelAt = i /\ cancelWhen = "checked"]_vars

C25_Witness ==
  /\ cancelWhen = "checked"
  /\ cancelAt = i
  /\ i \in spawned
  /\ proc = "running"

\* C26: whenever a batch ends as cancelled, the summary is written (the
\* call returns) and 0 <= s <= d <= total, s the success count and d the
\* number i - 1 of line 102.
C26_CancelSummary ==
  (pc \in {"returned", "raised"} /\ "cancelled" \in log) =>
    /\ pc = "returned"
    /\ 0 <= success_count
    /\ success_count <= i - 1
    /\ i - 1 <= total_count

\* C27: once the event is set, run_translation_batch returns, whatever the
\* child does, as long as the worker is scheduled.
C27_CancelledBatchReturns ==
  cancel_set ~> pc \in {"returned", "raised"}

\* C28: after the event is set, at most one more line of the running child
\* is handed to the logger before terminate() is called, and none after
\* terminate() was called.
C28_OneMoreLine ==
  [][Forwards =>
       /\ termAt = "none"
       /\ cancel_set => \A k \in DOMAIN forwarded : ~forwarded[k].signal]_vars

\* A line was handed over with the event set, then terminate() was called.
C28_Witness ==
  /\ \E k \in DOMAIN forwarded : forwarded[k].signal
  /\ termAt = "read"

(***************************************************************************)
(* The duration of the attribution caption (SrtSpec)                       *)
(***************************************************************************)
\* C29: whatever the start of the first caption of the file, 0 s included,
\* and for a file without captions, the caption add_translator_info inserts
\* lasts (start < end) and is in the rewritten file.
C29_VisibleAttribution ==
  Added =>
    /\ new_sub.start < new_sub.end
    /\ \E k \in DOMAIN disk.blocks :
         /\ disk.blocks[k].content = Info
         /\ disk.blocks[k].start = new_sub.start
         /\ disk.blocks[k].end = new_sub.end

(***************************************************************************)
(* Properties of the metadata lookups (TmdbSpec)                           *)
(***************************************************************************)
\* The requests to the metadata API: key test, the two searches, movie by
\* id and tv by id.
ApiEndpoints ==
  {"configuration", "search/movie", "search/tv", "movie/{tmdb_id}",
   "tv/{tmdb_id}"}

\* The key has exactly three dot-separated segments and more than 100
\* characters.
ThreeSegmentsOver100(key) ==
  /\ Len(SelectSeq(key, LAMBDA c : c = ".")) + 1 = 3
  /\ Len(key) > 100

\* C22: every request to the metadata API carries the Authorization header
\* and no api_key parameter when the key has three dot-separated segments
\* and more than 100 characters, and the api_key parameter and no
\* Authorization header otherwise.
C22_AuthByKeyShape ==
  \A r \in sent :
    r.endpoint \in ApiEndpoints =>
      IF ThreeSegmentsOver100(Strip(settings.tmdb_api_key, Whitespace))
      THEN r.authorization /\ ~r.api_key
      ELSE r.api_key /\ ~r.authorization

\* C23: at no moment are two lookup threads in flight, and no request to
\* the metadata API is made on the UI thread.
C23_OneLookupAtATime ==
  /\ Cardinality({t \in DOMAIN lookups : lookups[t].at # "done"}) <= 1
  /\ \A r \in sent : r.endpoint \in ApiEndpoints => r.thread # "ui"

\* C30: the user dropped A and then B, a search was started for each and
\* found its title, and both results have been handed over and applied:
\* the fields hold the result for B.
C30_LatestDropWins ==
  (/\ Len(dropped) = 2
   /\ dropped[1] # dropped[2]
   /\ Len(lookups) = 2
   /\ \A t \in 1..2 :
        /\ lookups[t].kind = "search"
        /\ lookups[t].arg = dropped[t]
        /\ lookups[t].at = "done"
        /\ lookups[t].found
   /\ callbacks = <<>>
   /\ timers = <<>>)
  => /\ tmdb_id = Str(MovieOf(dropped[2]).id)
     /\ overview_text = MovieOf(dropped[2]).overview

====
